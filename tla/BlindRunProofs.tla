--------------------------- MODULE BlindRunProofs ---------------------------
(***************************************************************************)
(* Proofs about BlindRun, for every list of fields, number of objects and  *)
(* indexes, limit and kind of run, and about EngineJob, for every list of  *)
(* depth ranges, scales and indexes.  RunInv holds in every run of a job;  *)
(* what FirstInv adds holds as long as there was only one.                 *)
(***************************************************************************)
EXTENDS EngineJob, DataLemmas

\* A field is being verified or searched.
InField == pc \in {"verify", "timer", "quads", "permuting", "fieldDone"}

\* A run has begun and not ended.
Running == pc \notin {"idle", "ended", "exited"}

\* Where the run is, and what it works on.
Control ==
  /\ pc # "idle" \/ mine # {} => fieldlist \subseteq Field
  /\ pc # "idle" /\ stage = "verify" => par.wcss > 0
  /\ todo # {} => InField \/ pc = "field"
  /\ InField => todo # {}
  /\ pc = "verify" => stage = "verify"
  /\ pc \in {"timer", "quads", "permuting", "match", "wcs", "ended", "exited"} =>
       stage = "search"

\* Why the field is solved, and why its search is to quit.
Counted ==
  InField =>
    /\ best_match_solves =>
         [field |-> f_now, odds |-> Solve] \in solutions /\ hits[f_now] >= NSolves
    /\ nsolves_sofar <= hits[f_now] \/ hits[f_now] = NSolves
    /\ nsolves_sofar >= NSolves => quit_now
    /\ quit_now => hit_limits # {} \/ best_match_solves

\* Until they are written, the solutions hold the best of each field.
Kept ==
  /\ \A s \in solutions : s.field \in fieldlist
  /\ pc = "idle" => solutions = {}
  /\ Running =>
       /\ \A f \in Field : best[f] # None => [field |-> f, odds |-> best[f]] \in solutions
       /\ \A s \in solutions : s.odds <= best[s.field]
  /\ pc = "wcs" => matchFile = solutions

\* What the flags that end the search say.
Flagged ==
  /\ single_field_solved <=> Cardinality(fieldlist) = 1 /\ mine # {}
  /\ cancelled => cancelFile

\* The reason for the mark of the only field: it is in the list or in the files, and
\* once it is in the files no solution is added.
Output ==
  Cardinality(fieldlist) = 1 /\ pc # "exited" =>
    \A f \in mine :
      \/ Running /\ [field |-> f, odds |-> Solve] \in solutions
      \/ /\ pc \in {"idle", "match", "ended"} /\ solutions = {}
         /\ wcsFile[f] = Solve /\ [field |-> f, odds |-> Solve] \in matchFile
         /\ pc = "idle" => par.wcss = 0

\* The clocks of a search without estimates were set after those of the run.
ClocksSet ==
  par.wcss = 0 /\ (InField \/ pc = "field") =>
    \A c \in Clock : since[c] <= since[Whole[c]]

\* Nothing more is to be done for the field in the pass.
Settled(f, n) ==
  \/ <<f, n>> \in full \cup limited
  \/ f \in solved \cup mine \cup misread
  \/ single_field_solved \/ cancelled \/ hit_limits # {}

\* The pass is still to come, or the field is still to come in it.
Waiting(f, n) ==
  \/ pc = "pass" /\ n >= pass
  \/ (pc = "field" \/ InField) /\ (n > pass \/ (n = pass /\ f \in todo))

\* What the search has settled: the passes before this one, the fields of this
\* pass it has left, and the field it is about to leave, which may still have to
\* be marked.
Searched ==
  /\ stage = "search" /\ pc # "idle" =>
       \A f \in fieldlist \ Unreadable, n \in 1..passes :
         Settled(f, n) \/ Waiting(f, n)
  /\ stage = "search" /\ pc = "fieldDone" => Settled(f_now, pass) \/ best_match_solves

\* What holds in every run of a job.
RunInv ==
  /\ TypeInv /\ Control /\ Counted /\ Kept /\ Flagged /\ Output
  /\ ClocksSet /\ Searched /\ BestWritten

\* A job that has not begun.
Fresh ==
  pc = "idle" => mine = {} /\ hit_limits = {}

\* The reasons for the marks, until they are written.
Reasons ==
  Running => \A f \in mine : [field |-> f, odds |-> Solve] \in solutions

\* What holds as long as there was one run.
FirstInv ==
  /\ Fresh /\ Reasons
  /\ SearchLimitNotEarly /\ SolvedNeedsNSolves /\ SolvedHasSolution

IInv == RunInv /\ FirstInv

-----------------------------------------------------------------------------
\* The field in work is one of those still to be done.
LEMMA FieldNow ==
  ASSUME todo \subseteq Field, todo # {}
  PROVE  f_now \in todo
<1>1. todo \subseteq Nat
  BY BlindAssumption DEF Field
<1>2. \E f \in todo : \A g \in todo : f <= g
  BY <1>1, LeastNat
<1> QED BY <1>2 DEF f_now

LEMMA Constants ==
  /\ MaxSolves = NSolves + 1 /\ NSolves \in Nat \ {0}
  /\ NumObj \in Nat /\ Field \subseteq Nat
  BY BlindAssumption DEF MaxSolves, Field

\* Each clock runs up to the same bound as that of the whole run.
LEMMA ClockBounds ==
  /\ \A c \in Clock : Limit[c] \in Nat /\ Cap[c] \in Nat
  /\ \A c \in Clock : /\ Whole[c] \in Clock /\ Whole[c] \in OfRun /\ Cap[Whole[c]] = Cap[c]
                      /\ Whole[c] \in Wall <=> c \in Wall
  /\ Skewed = -1 /\ "time" \in Clock /\ "cpu" \in Clock
<1>1. /\ Clock = {"cpu", "total_cpu", "time", "total_time"}
      /\ Cpu = {"cpu", "total_cpu"} /\ Wall = {"time", "total_time"}
  BY DEF Clock, Cpu, Wall
<1>2. \A c \in Clock : Limit[c] \in Nat
  BY BlindAssumption
<1>3. \A m, n \in Nat : Past(m, n) \in Nat
  BY DEF Past
<1>4. \A c \in Clock : Cap[c] \in Nat
  BY <1>1, <1>2, <1>3 DEF Cap
<1>5. \A c \in Clock : /\ Whole[c] \in Clock /\ Whole[c] \in OfRun
                       /\ Whole[c] \in Wall <=> c \in Wall
  BY <1>1 DEF Whole, OfRun
<1>6. \A c \in Clock : Cap[Whole[c]] = Cap[c]
  BY <1>1 DEF Whole, Cap
<1> QED BY <1>1, <1>2, <1>4, <1>5, <1>6 DEF Skewed

\* A flag is set only for a limit that has passed, and stays set.
LEMMA Checked ==
  ASSUME RunInv, check_time_limits
  PROVE  /\ hit_limits \subseteq hit_limits'
         /\ hit_limits' \subseteq {c \in Clock : Limit[c] # 0}
         /\ hit_limits # {} => hit_limits' # {}
         /\ SearchLimitNotEarly /\ InField /\ UNCHANGED <<par, since>> => SearchLimitNotEarly'
<1>1. /\ hit_limits' = hit_limits \cup {c \in Clock : Limit[c] # 0 /\ since[c] > Limit[c]}
      /\ hit_limits \subseteq {c \in Clock : Limit[c] # 0}
  BY DEF check_time_limits, RunInv, TypeInv
<1>2. ASSUME SearchLimitNotEarly, InField, UNCHANGED <<par, since>>, par.wcss = 0,
             NEW c \in hit_limits'
      PROVE  since[Whole[c]] > Limit[c]
  <2>1. /\ c \in Clock /\ since[c] <= since[Whole[c]]
        /\ c \in hit_limits \/ since[c] > Limit[c]
    BY <1>1, <1>2 DEF RunInv, ClocksSet
  <2>2. since[c] \in Int /\ since[Whole[c]] \in Int /\ Limit[c] \in Int
    <3>1. c \in Clock /\ Whole[c] \in Clock /\ Limit[c] \in Nat
      BY <2>1, ClockBounds
    <3> QED BY <3>1 DEF RunInv, TypeInv
  <2>3. c \in hit_limits => since[Whole[c]] > Limit[c]
    BY <1>2 DEF SearchLimitNotEarly
  <2> QED BY <2>1, <2>2, <2>3
<1>3. hit_limits \subseteq hit_limits' /\ hit_limits' \subseteq {c \in Clock : Limit[c] # 0}
  BY <1>1
<1> QED BY <1>2, <1>3 DEF SearchLimitNotEarly

LEMMA InitRun == InitJob /\ par \in Params => IInv
<1> SUFFICES ASSUME InitJob, par \in Params PROVE IInv
  OBVIOUS
<1> USE DEF InitJob
<1>1. TypeInv
  <2>1. /\ nsolves_sofar \in 0..MaxSolves /\ obj \in 0..NumObj /\ pass \in Nat
    BY Constants
  <2>6. /\ since \in [Clock -> Int] /\ \A c \in Clock : since[c] \in 0..Cap[c]
    BY ClockBounds
  <2>2. hits \in [Field -> 0..NSolves]
    BY Constants
  <2>3. wcsFile \in [Field -> Odds] /\ best \in [Field -> Odds]
    BY DEF Odds
  <2>4. {best_match_solves, quit_now, cancelled, single_field_solved, cancelFile}
          \subseteq BOOLEAN
    OBVIOUS
  <2>5. solved \subseteq Field
    OBVIOUS
  <2> QED BY <2>1, <2>2, <2>3, <2>4, <2>5, <2>6 DEF TypeInv
<1>2. Fresh /\ Control /\ Counted
  BY DEF Fresh, Control, Counted, InField
<1>3. Kept /\ Flagged /\ Output /\ BestWritten
  BY DEF Kept, Running, Flagged, Output, BestWritten
<1>4. Reasons /\ SolvedHasSolution /\ SolvedNeedsNSolves
  BY DEF Reasons, SolvedHasSolution, SolvedNeedsNSolves
<1>5. ClocksSet /\ SearchLimitNotEarly /\ Searched
  BY DEF ClocksSet, SearchLimitNotEarly, Searched, InField
<1> QED BY <1>1, <1>2, <1>3, <1>4, <1>5 DEF IInv, RunInv, FirstInv

-----------------------------------------------------------------------------
(* Between the fields. *)

\* A run of a job starts with the estimates the last one left.
LEMMA StartRunStep ==
  ASSUME RunInv, NEW p \in Params, StartRun(p), p.wcss = par.wcss
  PROVE  RunInv' /\ (FirstInv => FirstInv')
<1> USE DEF StartRun
<1>0. /\ solutions = {} /\ todo = {} /\ single_field_solved' = single_field_solved
      /\ UNCHANGED <<solved, cancelFile, matchFile, wcsFile, mine, misread, cancelled,
                     hit_limits>>
  BY DEF RunInv, Kept, Control, InField, files, limits
<1>1. mine # {} => fieldlist' = fieldlist
  BY DEF RunInv, Control
<1>2. TypeInv'
  <2>1. /\ pc' \in {"match", "pass"} /\ stage' \in {"verify", "search"} /\ pass' \in Nat
        /\ fieldlist' \subseteq Fields
    BY Constants DEF RunInv, TypeInv
  <2>2. /\ best' \in [Field -> Odds] /\ hits' \in [Field -> 0..NSolves]
        /\ full' = {} /\ limited' = {}
    BY Constants DEF Odds
  <2>4. /\ since' \in [Clock -> Int]
        /\ \A c \in Clock : since'[c] \in 0..Cap[c] \/ (c = "time" /\ since'[c] = Skewed)
    BY ClockBounds DEF RunInv, TypeInv
  <2>3. mine' \subseteq fieldlist' /\ todo' \subseteq fieldlist'
    BY <1>0, <1>1 DEF RunInv, TypeInv
  <2> QED BY <1>0, <2>1, <2>2, <2>3, <2>4 DEF RunInv, TypeInv, solver
<1>3. Control' /\ Counted'
  BY <1>0 DEF RunInv, TypeInv, Params, Control, Counted, InField
<1>4. Kept' /\ BestWritten'
  BY <1>0 DEF Kept, Running, None, BestWritten
<1>5. Flagged'
  <2>1. single_field_solved <=> Cardinality(fieldlist) = 1 /\ mine # {}
    BY DEF RunInv, Flagged
  <2>2. single_field_solved' <=> Cardinality(fieldlist') = 1 /\ mine' # {}
    BY <1>0, <1>1, <2>1
  <2> QED BY <1>0, <2>2 DEF RunInv, Flagged
<1>6. Output'
  <2> SUFFICES ASSUME Cardinality(fieldlist') = 1, NEW f \in mine
               PROVE  /\ pc' = "match" /\ wcsFile[f] = Solve
                      /\ [field |-> f, odds |-> Solve] \in matchFile
    BY <1>0 DEF Output
  <2>1. Cardinality(fieldlist) = 1
    BY <1>1
  <2>2. /\ wcsFile[f] = Solve /\ [field |-> f, odds |-> Solve] \in matchFile
        /\ par.wcss = 0
    BY <2>1 DEF RunInv, Output, Running
  <2>3. single_field_solved
    BY <2>1 DEF RunInv, Flagged
  <2> QED BY <2>2, <2>3
<1>7. ClocksSet'
  BY DEF ClocksSet, InField
<1>8. Searched'
  BY DEF Searched, Settled, Waiting, InField, limits, passes, RunInv, TypeInv, Params
<1>9. ASSUME FirstInv PROVE FirstInv'
  <2>1. mine = {} /\ hit_limits = {}
    BY <1>9 DEF FirstInv, Fresh
  <2>2. Fresh' /\ Reasons' /\ SolvedHasSolution' /\ SolvedNeedsNSolves'
    BY <1>0, <2>1 DEF Fresh, Reasons, SolvedHasSolution, SolvedNeedsNSolves
  <2>3. SearchLimitNotEarly'
    BY <1>0, <2>1 DEF SearchLimitNotEarly
  <2> QED BY <2>2, <2>3 DEF FirstInv
<1> QED BY <1>2, <1>3, <1>4, <1>5, <1>6, <1>7, <1>8, <1>9 DEF RunInv

\* Steps that only go from one pass or field to the next.
LEMMA PassStep ==
  ASSUME RunInv, VerifyPass \/ SearchPass \/ PassEnd \/ TimerWaits
  PROVE  RunInv' /\ (FirstInv => FirstInv')
<1>0. /\ UNCHANGED <<par, stage, obj, fieldlist, solver, solutions, limits, files, history>>
      /\ pc \in {"pass", "field", "timer"} /\ pc' \in {"pass", "field", "match", "quads"}
  BY DEF VerifyPass, SearchPass, PassEnd, TimerWaits
<1>10. /\ \/ UNCHANGED since
          \/ /\ since' = [since EXCEPT !["cpu"] = 0, !["time"] = Skewed]
             /\ SearchPass
       /\ SearchPass /\ pc' = "field" =>
            since' = [since EXCEPT !["cpu"] = 0, !["time"] = Skewed]
  BY DEF VerifyPass, SearchPass, PassEnd, TimerWaits
<1>11. /\ since' \in [Clock -> Int]
       /\ \A c \in Clock : since'[c] \in 0..Cap[c] \/ (c = "time" /\ since'[c] = Skewed)
       /\ \A c \in OfRun : since'[c] = since[c]
       /\ \A c \in Clock : since'[Whole[c]] = since[Whole[c]]
  <2>1. since \in [Clock -> Int]
        /\ \A c \in Clock : since[c] \in 0..Cap[c] \/ (c = "time" /\ since[c] = Skewed)
    BY DEF RunInv, TypeInv
  <2>2. OfRun = {"total_cpu", "total_time"} /\ OfRun \subseteq Clock
    BY DEF OfRun, Clock, Cpu, Wall
  <2>3. CASE UNCHANGED since
    BY <2>1, <2>3
  <2>4. CASE since' = [since EXCEPT !["cpu"] = 0, !["time"] = Skewed]
    <3>1. since' \in [Clock -> Int]
      BY <2>1, <2>4, ClockBounds
    <3>2. \A c \in Clock : since'[c] \in 0..Cap[c] \/ (c = "time" /\ since'[c] = Skewed)
      BY <2>1, <2>4, ClockBounds
    <3>3. \A c \in OfRun : since'[c] = since[c]
      BY <2>1, <2>2, <2>4
    <3> QED BY <3>1, <3>2, <3>3, ClockBounds
  <2> QED BY <1>10, <2>3, <2>4
<1> USE DEF solver, limits, files, history
<1>1. TypeInv'
  <2>1. /\ pass' \in Nat /\ todo' \subseteq fieldlist
        /\ pc' \in {"quads"} => obj < NumObj
    BY Constants DEF VerifyPass, SearchPass, PassEnd, TimerWaits, RunInv, TypeInv
  <2> QED BY <1>0, <1>11, <2>1 DEF RunInv, TypeInv
<1>2. Control'
  BY DEF VerifyPass, SearchPass, PassEnd, TimerWaits, RunInv, Control, InField
<1>3. Counted'
  <2>1. CASE TimerWaits
    BY <2>1 DEF TimerWaits, RunInv, Counted, InField, f_now
  <2>2. CASE ~ TimerWaits
    BY <2>2 DEF VerifyPass, SearchPass, PassEnd, Counted, InField
  <2> QED BY <2>1, <2>2
<1>4. Running /\ Running'
  BY <1>0 DEF Running
<1>5. Kept' /\ BestWritten' /\ Flagged'
  BY <1>0, <1>4 DEF RunInv, Kept, BestWritten, Flagged
<1>6. Output'
  <2>1. pc \notin {"idle", "match", "ended", "exited"}
    BY <1>0
  <2> QED BY <1>0, <1>4, <2>1 DEF RunInv, Output
<1>7. ClocksSet'
  <2> SUFFICES ASSUME par.wcss = 0, pc' \in {"field", "quads"}, NEW c \in Clock
               PROVE  since'[c] <= since'[Whole[c]]
    BY <1>0 DEF ClocksSet, InField
  <2>1. CASE SearchPass
    <3>1. since' = [since EXCEPT !["cpu"] = 0, !["time"] = Skewed]
      BY <1>0, <1>10, <2>1 DEF SearchPass
    <3>2. c \in OfRun => Whole[c] = c
      BY DEF OfRun, Whole, Clock, Cpu, Wall
    <3>3. c \in OfRun \/ c \in {"cpu", "time"}
      BY DEF OfRun, Clock, Cpu, Wall
    <3>4. since'[c] \in {0, Skewed} \/ c \in OfRun
      BY <3>1, <3>3 DEF RunInv, TypeInv
    <3>5. since'[Whole[c]] >= 0
      <4>1. Whole[c] # "time" /\ Whole[c] \in Clock
        BY ClockBounds DEF OfRun
      <4>2. PICK w \in Clock : w = Whole[c] /\ w # "time"
        BY <4>1
      <4>3. since'[w] \in 0..Cap[w]
        BY <1>11, <4>2
      <4> QED BY <4>2, <4>3, ClockBounds
    <3>6. c \in OfRun => since'[c] = since'[Whole[c]] /\ since'[c] \in Int
      BY <1>11, <3>2
    <3>7. since'[Whole[c]] \in Int
      BY <1>11, ClockBounds
    <3> QED BY <3>4, <3>5, <3>6, <3>7, ClockBounds
  <2>2. CASE ~ SearchPass
    <3>1. UNCHANGED since /\ (pc = "field" \/ InField)
      <4>1. par.wcss = 0 => stage # "verify"
        BY <1>0 DEF RunInv, Control, TypeInv, Params
      <4> QED BY <1>10, <2>2, <4>1 DEF VerifyPass, PassEnd, TimerWaits, InField
    <3> QED BY <3>1 DEF RunInv, ClocksSet
  <2> QED BY <2>1, <2>2
<1>8. Searched'
  <2> SUFFICES ASSUME stage = "search"
               PROVE  Searched'
    BY <1>0 DEF Searched
  <2>1. ASSUME NEW f \in fieldlist \ Unreadable, NEW n \in 1..passes
        PROVE  Settled(f, n)' \/ Waiting(f, n)'
    <3>1. Settled(f, n) \/ Waiting(f, n)
      BY <1>0, <2>1 DEF RunInv, Searched
    <3>2. CASE Settled(f, n)
      BY <1>0, <3>2 DEF Settled
    <3>3. CASE Waiting(f, n)
      <4>1. CASE SearchPass
        BY <2>1, <3>3, <4>1
        DEF SearchPass, Waiting, Settled, stopped, InField, RunInv, TypeInv, passes, Params
      <4>2. CASE PassEnd
        BY <2>1, <3>3, <4>2 DEF PassEnd, Waiting, InField, RunInv, TypeInv
      <4>3. CASE TimerWaits
        BY <3>3, <4>3 DEF TimerWaits, Waiting, InField
      <4> QED BY <4>1, <4>2, <4>3 DEF VerifyPass
    <3> QED BY <3>1, <3>2, <3>3
  <2>2. passes' = passes
    BY <1>0 DEF passes
  <2> QED BY <1>0, <2>1, <2>2 DEF Searched
<1>9. ASSUME FirstInv PROVE FirstInv'
  <2>1. SearchLimitNotEarly'
    <3>1. hit_limits' = hit_limits /\ hit_limits \subseteq Clock /\ par' = par
      BY <1>0 DEF RunInv, TypeInv
    <3> QED BY <1>9, <1>11, <3>1 DEF FirstInv, SearchLimitNotEarly
  <2> QED BY <1>0, <1>4, <1>9, <2>1
      DEF FirstInv, Fresh, Reasons, SolvedNeedsNSolves, SolvedHasSolution
<1> QED BY <1>1, <1>2, <1>3, <1>5, <1>6, <1>7, <1>8, <1>9 DEF RunInv

LEMMA Now ==
  ASSUME RunInv, InField \/ (pc = "field" /\ todo # {})
  PROVE  f_now \in todo /\ f_now \in fieldlist /\ f_now \in Field
<1>1. todo \subseteq fieldlist /\ fieldlist \subseteq Field /\ todo # {}
  BY DEF RunInv, TypeInv, Control, InField
<1> QED BY <1>1, FieldNow

\* Only solutions worse than another of the same field are dropped.
LEMMA BestStays ==
  ASSUME RunInv, Running
  PROVE  LET S == remove_duplicate_solutions(solutions)
         IN  /\ S \subseteq solutions
             /\ \A f \in Field : [field |-> f, odds |-> Solve] \in solutions =>
                                   [field |-> f, odds |-> Solve] \in S
             /\ \A f \in Field : best[f] # None => [field |-> f, odds |-> best[f]] \in S
<1> DEFINE S == remove_duplicate_solutions(solutions)
<1>1. S \subseteq solutions
  BY DEF remove_duplicate_solutions
<1>2. ASSUME NEW f \in Field, [field |-> f, odds |-> Solve] \in solutions
      PROVE  [field |-> f, odds |-> Solve] \in S
  <2>1. \A t \in solutions : t.odds <= Solve
    BY DEF RunInv, TypeInv, Solution, Keep, Solve
  <2> QED BY <1>2, <2>1 DEF remove_duplicate_solutions
<1>3. ASSUME NEW f \in Field, best[f] # None
      PROVE  [field |-> f, odds |-> best[f]] \in S
  <2>1. [field |-> f, odds |-> best[f]] \in solutions
    BY <1>3 DEF RunInv, Kept
  <2>2. \A t \in solutions : t.odds <= best[t.field]
    BY DEF RunInv, Kept
  <2> QED BY <2>1, <2>2 DEF remove_duplicate_solutions
<1> QED BY <1>1, <1>2, <1>3

LEMMA VerifyEndStep ==
  ASSUME RunInv, VerifyEnd
  PROVE  RunInv' /\ (FirstInv => FirstInv')
<1> DEFINE F == {s.field : s \in {t \in solutions' : t.odds >= Solve}}
<1>1. /\ pc = "pass" /\ stage = "verify" /\ stage' = "search" /\ pass' = 1
      /\ pc' = IF single_field_solved' THEN "match" ELSE "pass"
      /\ UNCHANGED <<par, todo, obj, fieldlist, solver, hit_limits,
                     cancelled, since, best, hits, full, limited, misread>>
      /\ solutions' \in {solutions, remove_duplicate_solutions(solutions)}
  BY DEF VerifyEnd
<1>2. PICK W \in Writable(F) : solved_field(F, W)
  BY DEF VerifyEnd
<1>3. /\ solved' = solved \cup W /\ mine' = mine \cup F
      /\ UNCHANGED <<cancelFile, matchFile, wcsFile>>
      /\ single_field_solved' \in BOOLEAN /\ (single_field_solved => single_field_solved')
      /\ single_field_solved' = (single_field_solved \/ (F # {} /\ Cardinality(fieldlist) = 1))
  BY <1>2 DEF solved_field, RunInv, TypeInv
<1>4. solutions' \subseteq solutions
  BY <1>1, BestStays DEF Running
<1>5. F \subseteq fieldlist /\ fieldlist \subseteq Field /\ W \subseteq Field
  <2>1. F \subseteq fieldlist /\ fieldlist \subseteq Field
    BY <1>1, <1>4 DEF RunInv, Kept, Control
  <2> QED BY <1>2, <2>1 DEF Writable
<1>6. \A f \in F : [field |-> f, odds |-> Solve] \in solutions'
  <2>1. ASSUME NEW s \in solutions', s.odds >= Solve
        PROVE  s = [field |-> s.field, odds |-> Solve]
    BY <1>4, <2>1 DEF RunInv, TypeInv, Solution, Keep, Solve
  <2> QED BY <2>1
<1> HIDE DEF F
<1>7. par.wcss > 0 /\ Running /\ Running'
  BY <1>1 DEF RunInv, Control, Running
<1>8. TypeInv'
  BY <1>1, <1>3, <1>4, <1>5 DEF RunInv, TypeInv, solver
<1>9. Control' /\ Counted'
  BY <1>1, <1>5 DEF RunInv, Control, Counted, InField
<1>10. \A f \in Field : [field |-> f, odds |-> Solve] \in solutions =>
                          [field |-> f, odds |-> Solve] \in solutions'
  BY <1>1, <1>7, BestStays
<1>11. mine \subseteq Field
  BY <1>5 DEF RunInv, TypeInv
<1>12. Kept' /\ BestWritten'
  <2>1. \A f \in Field : best[f] # None => [field |-> f, odds |-> best[f]] \in solutions'
    BY <1>1, <1>7, BestStays DEF RunInv, Kept
  <2> QED BY <1>1, <1>3, <1>4, <1>7, <2>1 DEF RunInv, Kept, BestWritten
<1>13. Flagged'
  BY <1>1, <1>3 DEF RunInv, Flagged
<1>14. Output'
  <2> SUFFICES ASSUME Cardinality(fieldlist) = 1, NEW f \in mine'
               PROVE  [field |-> f, odds |-> Solve] \in solutions'
    BY <1>1, <1>7 DEF Output
  <2>1. f \in mine => [field |-> f, odds |-> Solve] \in solutions
    BY <1>1 DEF RunInv, Output
  <2> QED BY <1>3, <1>6, <1>10, <1>11, <2>1
<1>15. ClocksSet'
  BY <1>1, <1>7 DEF ClocksSet
<1>16. Searched'
  BY <1>1 DEF Searched, Waiting, Settled, InField, passes
<1>17. ASSUME FirstInv PROVE FirstInv'
  <2>1. \A f \in mine' : [field |-> f, odds |-> Solve] \in solutions'
    BY <1>3, <1>6, <1>7, <1>10, <1>11, <1>17 DEF FirstInv, Reasons
  <2> QED BY <1>1, <1>7, <2>1
      DEF FirstInv, Fresh, Reasons, SearchLimitNotEarly, SolvedNeedsNSolves, SolvedHasSolution
<1> QED BY <1>8, <1>9, <1>12, <1>13, <1>14, <1>15, <1>16, <1>17 DEF RunInv

LEMMA SkipFieldStep ==
  ASSUME RunInv, SkipField
  PROVE  RunInv' /\ (FirstInv => FirstInv')
<1>1. /\ pc = "field" /\ todo # {} /\ todo' = todo \ {f_now}
      /\ f_now \in Unreadable \/ is_field_solved(f_now)
      /\ UNCHANGED <<par, pc, stage, pass, obj, fieldlist, solver, solutions,
                     limits, since, files, mine, best, hits, full, limited>>
      /\ f_now \in todo
  BY Now DEF SkipField
<1>2. /\ misread \subseteq misread' /\ misread' \subseteq misread \cup fieldlist
      /\ f_now \in Unreadable \/ f_now \in solved \cup misread'
  BY <1>1, Now DEF SkipField, is_field_solved, RunInv, TypeInv
<1> USE DEF solver, limits, files
<1>3. TypeInv'
  BY <1>1, <1>2 DEF RunInv, TypeInv
<1>4. Control' /\ Counted'
  BY <1>1 DEF RunInv, Control, Counted, InField
<1>5. Kept' /\ BestWritten' /\ Flagged' /\ Output'
  BY <1>1 DEF RunInv, Kept, Running, BestWritten, Flagged, Output
<1>6. ClocksSet'
  BY <1>1 DEF RunInv, ClocksSet, InField
<1>7. Searched'
  BY <1>1, <1>2 DEF RunInv, Searched, Settled, Waiting, InField, passes
<1>8. ASSUME FirstInv PROVE FirstInv'
  BY <1>1, <1>8
  DEF FirstInv, Fresh, Reasons, Running, SearchLimitNotEarly, SolvedNeedsNSolves,
      SolvedHasSolution
<1> QED BY <1>3, <1>4, <1>5, <1>6, <1>7, <1>8 DEF RunInv

LEMMA StartFieldStep ==
  ASSUME RunInv, StartField
  PROVE  RunInv' /\ (FirstInv => FirstInv')
<1>1. /\ pc = "field" /\ todo # {}
      /\ quit_now' = FALSE /\ best_match_solves' = FALSE /\ nsolves_sofar' = 0
      /\ UNCHANGED <<par, stage, pass, todo, fieldlist, solutions, limits, since,
                     files, mine, best, hits, limited, misread>>
      /\ f_now \in todo /\ f_now \in Field /\ f_now' = f_now
  <2>1. f_now' = f_now
    BY DEF StartField, f_now
  <2> QED BY <2>1, Now DEF StartField, isnt_field_solved
<1>2. /\ full \subseteq full' /\ full' \subseteq full \cup {<<f_now, pass>>}
      /\ \/ stage = "verify" /\ pc' = "verify" /\ UNCHANGED obj
         \/ stage = "search" /\ pc' = "fieldDone" /\ <<f_now, pass>> \in full' /\ UNCHANGED obj
         \/ stage = "search" /\ pc' = "timer" /\ obj' = par.start /\ par.start < numxy
  <2>1. par.start \in Nat /\ numxy \in Nat
    BY Constants DEF RunInv, TypeInv, numxy, Params
  <2>2. stage \in {"verify", "search"}
    BY DEF RunInv, TypeInv
  <2>3. par.start >= numxy \/ par.start < numxy
    BY <2>1
  <2> QED BY <2>2, <2>3 DEF StartField
<1> USE DEF limits, files
<1>3. TypeInv'
  <2>1. obj' \in 0..NumObj /\ (pc' = "timer" => obj' < NumObj)
    BY <1>2, Constants DEF RunInv, TypeInv, numxy, Params
  <2>2. full' \subseteq Field \X Nat /\ nsolves_sofar' \in 0..MaxSolves
    BY <1>1, <1>2, Constants DEF RunInv, TypeInv
  <2> QED BY <1>1, <1>2, <2>1, <2>2 DEF RunInv, TypeInv
<1>4. Control'
  BY <1>1, <1>2 DEF RunInv, Control, InField
<1>5. Counted'
  <2>1. 0 <= hits[f_now] /\ ~ (0 >= NSolves)
    BY <1>1, Constants DEF RunInv, TypeInv
  <2> QED BY <1>1, <2>1 DEF Counted
<1>6. Kept' /\ BestWritten' /\ Flagged' /\ Output'
  BY <1>1, <1>2 DEF RunInv, Kept, Running, BestWritten, Flagged, Output
<1>7. ClocksSet'
  BY <1>1 DEF RunInv, ClocksSet
<1>8. Searched'
  BY <1>1, <1>2 DEF RunInv, Searched, Settled, Waiting, InField, passes
<1>9. ASSUME FirstInv PROVE FirstInv'
  BY <1>1, <1>2, <1>9
  DEF FirstInv, Fresh, Reasons, Running, SearchLimitNotEarly, SolvedNeedsNSolves,
      SolvedHasSolution
<1> QED BY <1>3, <1>4, <1>5, <1>6, <1>7, <1>8, <1>9 DEF RunInv

LEMMA FieldDoneStep ==
  ASSUME RunInv, FieldDone
  PROVE  RunInv' /\ (FirstInv => FirstInv')
<1> DEFINE F == IF best_match_solves THEN {f_now} ELSE {}
<1>1. /\ pc = "fieldDone" /\ InField /\ pc' = "field" /\ obj' = 0 /\ todo' = todo \ {f_now}
      /\ f_now \in todo /\ f_now \in Field /\ f_now \in fieldlist
      /\ UNCHANGED <<par, stage, pass, fieldlist, solver, solutions, hit_limits,
                     cancelled, since, best, hits, full, limited, misread>>
  BY Now DEF FieldDone, InField
<1>2. /\ solved \subseteq solved' /\ solved' \subseteq Field /\ mine' = mine \cup F
      /\ UNCHANGED <<cancelFile, matchFile, wcsFile>>
      /\ single_field_solved' \in BOOLEAN /\ (single_field_solved => single_field_solved')
      /\ single_field_solved' = (single_field_solved \/ (F # {} /\ Cardinality(fieldlist) = 1))
  <2>1. CASE best_match_solves
    <3>1. PICK W \in Writable({f_now}) : solved_field({f_now}, W)
      BY <2>1 DEF FieldDone
    <3>2. W \subseteq Field
      BY <1>1, <3>1 DEF Writable
    <3> QED BY <2>1, <3>1, <3>2 DEF solved_field, RunInv, TypeInv
  <2>2. CASE ~ best_match_solves
    BY <2>2 DEF FieldDone, files, RunInv, TypeInv
  <2> QED BY <2>1, <2>2
<1>3. \A f \in F : [field |-> f, odds |-> Solve] \in solutions /\ hits[f] >= NSolves
  BY <1>1 DEF RunInv, Counted
<1>4. TypeInv'
  BY <1>1, <1>2, Constants DEF RunInv, TypeInv, solver
<1>5. Control' /\ Counted'
  BY <1>1 DEF RunInv, Control, Counted, InField
<1>6. Kept' /\ BestWritten' /\ Flagged'
  BY <1>1, <1>2 DEF RunInv, Kept, Running, BestWritten, Flagged
<1>7. Output' /\ ClocksSet'
  <2>1. Output'
    BY <1>1, <1>2, <1>3 DEF RunInv, Output, Running
  <2>2. ClocksSet'
    BY <1>1 DEF RunInv, ClocksSet, InField
  <2> QED BY <2>1, <2>2
<1>8. Searched'
  <2>1. stage = "search" => Settled(f_now, pass) \/ best_match_solves
    BY <1>1 DEF RunInv, Searched
  <2>2. stage = "search" => f_now \in mine' \/ Settled(f_now, pass)
    BY <2>1, <1>2
  <2>3. ASSUME NEW f, NEW n, Settled(f, n) PROVE Settled(f, n)'
    BY <1>1, <1>2, <2>3 DEF Settled
  <2>4. ASSUME NEW f \in fieldlist \ Unreadable, NEW n \in 1..passes, stage = "search"
        PROVE  Settled(f, n)' \/ Waiting(f, n)'
    <3>1. Settled(f, n) \/ Waiting(f, n)
      BY <1>1, <2>4 DEF RunInv, Searched
    <3>2. CASE f = f_now /\ n = pass
      BY <2>2, <2>3, <2>4, <3>2 DEF Settled
    <3>3. CASE Waiting(f, n) /\ ~ (f = f_now /\ n = pass)
      BY <1>1, <3>3 DEF Waiting
    <3> QED BY <2>3, <3>1, <3>2, <3>3
  <2>5. passes' = passes
    BY <1>1 DEF passes
  <2> QED BY <1>1, <2>4, <2>5 DEF Searched
<1>9. ASSUME FirstInv PROVE FirstInv'
  <2>1. \A f \in mine : [field |-> f, odds |-> Solve] \in solutions
    BY <1>1, <1>9 DEF FirstInv, Reasons, Running
  <2>2. SolvedHasSolution' /\ Reasons'
    BY <1>1, <1>2, <1>3, <2>1 DEF SolvedHasSolution, Reasons
  <2>3. SolvedNeedsNSolves'
    BY <1>1, <1>2, <1>3, <1>9 DEF FirstInv, SolvedNeedsNSolves
  <2>4. SearchLimitNotEarly' /\ Fresh'
    BY <1>1, <1>9 DEF FirstInv, SearchLimitNotEarly, Fresh
  <2> QED BY <2>2, <2>3, <2>4 DEF FirstInv
<1> QED BY <1>4, <1>5, <1>6, <1>7, <1>8, <1>9 DEF RunInv

-----------------------------------------------------------------------------
(* In a field. *)

\* What a match does to the counts, flags and solutions.
LEMMA MatchRecorded ==
  ASSUME RunInv, InField, pc # "fieldDone", NEW o \in {Keep, Solve},
         record_match_callback(f_now, o),
         pc = "verify" \/ nsolves_sofar < MaxSolves,
         UNCHANGED <<par, stage, todo, fieldlist, mine, wcsFile, single_field_solved,
                     cancelled, since>>
  PROVE  /\ nsolves_sofar' \in 0..MaxSolves
         /\ best_match_solves' \in BOOLEAN /\ quit_now' \in BOOLEAN
         /\ hit_limits \subseteq hit_limits' /\ hit_limits' \subseteq {c \in Clock : Limit[c] # 0}
         /\ solutions \subseteq solutions' /\ solutions' \subseteq Solution
         /\ best' \in [Field -> Odds] /\ hits' \in [Field -> 0..NSolves]
         /\ best_match_solves' =>
              [field |-> f_now, odds |-> Solve] \in solutions' /\ hits'[f_now] >= NSolves
         /\ nsolves_sofar' <= hits'[f_now] \/ hits'[f_now] = NSolves
         /\ nsolves_sofar' >= NSolves => quit_now'
         /\ quit_now' => hit_limits' # {} \/ best_match_solves'
         /\ \A s \in solutions' : s.field \in fieldlist /\ s.odds <= best'[s.field]
         /\ \A f \in Field : best'[f] # None => [field |-> f, odds |-> best'[f]] \in solutions'
         /\ \A f \in Field : hits'[f] >= hits[f]
         /\ SearchLimitNotEarly => SearchLimitNotEarly'
<1> DEFINE new == [field |-> f_now, odds |-> o]
           solves == o >= logratio_tosolve
           enough == solves /\ nsolves_sofar + 1 >= NSolves
<1>1. /\ f_now \in todo /\ f_now \in fieldlist /\ f_now \in Field
      /\ NSolves \in Nat \ {0} /\ MaxSolves = NSolves + 1
  BY Now, Constants
<1>2. /\ solutions' = solutions \cup {new}
      /\ nsolves_sofar' = IF solves THEN nsolves_sofar + 1 ELSE nsolves_sofar
      /\ best_match_solves' = (best_match_solves \/ enough)
      /\ quit_now' = (quit_now \/ hit_limits' # {} \/ enough)
      /\ best' = [best EXCEPT ![f_now] = IF o > @ THEN o ELSE @]
      /\ hits' = [hits EXCEPT ![f_now] = IF solves /\ @ < NSolves THEN @ + 1 ELSE @]
  BY DEF record_match_callback
<1>3. check_time_limits
  BY DEF record_match_callback
<1>4. solves => o = Solve /\ stage = "search"
  BY DEF logratio_tosolve, Keep, Solve, Huge, RunInv, TypeInv
<1>5. pc = "verify" => ~ solves
  BY <1>4 DEF RunInv, Control
<1>6. /\ nsolves_sofar \in 0..MaxSolves /\ hits[f_now] \in 0..NSolves
      /\ hits \in [Field -> 0..NSolves] /\ best \in [Field -> Odds]
      /\ best_match_solves \in BOOLEAN /\ quit_now \in BOOLEAN
      /\ solutions \subseteq Solution
  BY <1>1 DEF RunInv, TypeInv
<1> HIDE DEF solves
<1>7. /\ nsolves_sofar' \in 0..MaxSolves
      /\ hits' \in [Field -> 0..NSolves]
      /\ hits'[f_now] = IF solves /\ hits[f_now] < NSolves THEN hits[f_now] + 1 ELSE hits[f_now]
  BY <1>1, <1>2, <1>5, <1>6
<1>8. /\ best_match_solves' \in BOOLEAN /\ quit_now' \in BOOLEAN
      /\ hit_limits \subseteq hit_limits' /\ hit_limits' \subseteq {c \in Clock : Limit[c] # 0}
      /\ hit_limits # {} => hit_limits' # {}
  BY <1>2, <1>3, <1>6, Checked
<1>9. /\ nsolves_sofar <= hits[f_now] \/ hits[f_now] = NSolves
      /\ nsolves_sofar >= NSolves => quit_now
      /\ quit_now => hit_limits # {} \/ best_match_solves
      /\ best_match_solves =>
           [field |-> f_now, odds |-> Solve] \in solutions /\ hits[f_now] >= NSolves
  BY DEF RunInv, Counted
<1>10. /\ nsolves_sofar' <= hits'[f_now] \/ hits'[f_now] = NSolves
       /\ nsolves_sofar' >= NSolves => quit_now'
  <2>1. nsolves_sofar' <= hits'[f_now] \/ hits'[f_now] = NSolves
    BY <1>1, <1>2, <1>6, <1>7, <1>9
  <2>2. nsolves_sofar' >= NSolves => enough \/ nsolves_sofar >= NSolves
    BY <1>1, <1>2, <1>6
  <2>3. quit_now \/ enough => quit_now'
    BY <1>2
  <2> QED BY <1>9, <2>1, <2>2, <2>3
<1>11. quit_now' => hit_limits' # {} \/ best_match_solves'
  BY <1>2, <1>8, <1>9
<1>12. best_match_solves' =>
         [field |-> f_now, odds |-> Solve] \in solutions' /\ hits'[f_now] >= NSolves
  <2>1. CASE best_match_solves
    BY <1>1, <1>2, <1>6, <1>7, <1>9, <2>1
  <2>2. CASE enough
    BY <1>1, <1>2, <1>4, <1>6, <1>7, <1>9, <2>2
  <2> QED BY <1>2, <2>1, <2>2
<1>13. solutions \subseteq solutions' /\ solutions' \subseteq Solution
  BY <1>1, <1>2, <1>6 DEF Solution
<1>14. /\ best' \in [Field -> Odds]
       /\ \A f \in Field : best'[f] = IF f = f_now /\ o > best[f] THEN o ELSE best[f]
  BY <1>1, <1>2, <1>6 DEF Odds, Keep, Solve
<1>15. /\ \A s \in solutions : s.field \in fieldlist /\ s.odds <= best[s.field]
       /\ \A f \in Field : best[f] # None => [field |-> f, odds |-> best[f]] \in solutions
  BY DEF RunInv, Kept, Running, InField
<1>16. \A s \in solutions' : s.field \in fieldlist /\ s.odds <= best'[s.field]
  <2>1. ASSUME NEW s \in solutions
        PROVE  s.field \in fieldlist /\ s.odds <= best'[s.field]
    <3>1. s.field \in Field /\ s.odds \in {Keep, Solve} /\ best[s.field] \in Odds
      BY <1>6, <2>1 DEF Solution
    <3> QED BY <1>14, <1>15, <2>1, <3>1 DEF Odds, None, Keep, Solve
  <2>2. new.field \in fieldlist /\ new.odds <= best'[new.field]
    BY <1>1, <1>6, <1>14 DEF Odds, None, Keep, Solve
  <2> QED BY <1>2, <2>1, <2>2
<1>17. \A f \in Field : best'[f] # None => [field |-> f, odds |-> best'[f]] \in solutions'
  BY <1>2, <1>14, <1>15
<1>18. \A f \in Field : hits'[f] >= hits[f]
  BY <1>1, <1>2, <1>6
<1>19. SearchLimitNotEarly => SearchLimitNotEarly'
  BY <1>3, Checked
<1> QED BY <1>7, <1>8, <1>10, <1>11, <1>12, <1>13, <1>14, <1>16, <1>17, <1>18, <1>19

LEMMA MatchStep ==
  ASSUME RunInv, NEW o \in {Keep, Solve}, record_match_callback(f_now, o),
         \/ pc = "verify" /\ pc' = "fieldDone"
         \/ /\ pc \in {"quads", "permuting"} /\ pc' \in {"quads", "permuting"}
            /\ nsolves_sofar < MaxSolves,
         UNCHANGED <<par, stage, pass, todo, obj, fieldlist, cancelled, single_field_solved,
                     since, files, mine, full, limited, misread>>
  PROVE  RunInv' /\ (FirstInv => FirstInv')
<1>1. InField /\ pc # "fieldDone" /\ f_now' = f_now
  BY DEF InField, f_now
<1>2. UNCHANGED <<mine, wcsFile, single_field_solved, cancelled, since, solved, cancelFile,
                  matchFile>>
  BY DEF files
<1>3. /\ nsolves_sofar' \in 0..MaxSolves
      /\ best_match_solves' \in BOOLEAN /\ quit_now' \in BOOLEAN
      /\ hit_limits \subseteq hit_limits' /\ hit_limits' \subseteq {c \in Clock : Limit[c] # 0}
      /\ solutions \subseteq solutions' /\ solutions' \subseteq Solution
      /\ best' \in [Field -> Odds] /\ hits' \in [Field -> 0..NSolves]
  BY <1>1, <1>2, MatchRecorded
<1>4. /\ best_match_solves' =>
           [field |-> f_now, odds |-> Solve] \in solutions' /\ hits'[f_now] >= NSolves
      /\ nsolves_sofar' <= hits'[f_now] \/ hits'[f_now] = NSolves
      /\ nsolves_sofar' >= NSolves => quit_now'
      /\ quit_now' => hit_limits' # {} \/ best_match_solves'
  BY <1>1, <1>2, MatchRecorded
<1>5. /\ \A s \in solutions' : s.field \in fieldlist /\ s.odds <= best'[s.field]
      /\ \A f \in Field : best'[f] # None => [field |-> f, odds |-> best'[f]] \in solutions'
      /\ \A f \in Field : hits'[f] >= hits[f]
      /\ SearchLimitNotEarly => SearchLimitNotEarly'
  BY <1>1, <1>2, MatchRecorded
<1>6. TypeInv'
  BY <1>2, <1>3 DEF RunInv, TypeInv
<1>7. Control'
  BY <1>1 DEF RunInv, Control, InField
<1>8. Counted'
  BY <1>1, <1>4 DEF Counted
<1>9. Running /\ Running' /\ pc' # "wcs"
  BY DEF Running
<1>10. Kept' /\ BestWritten' /\ Flagged' /\ Output'
  <2>1. Kept' /\ BestWritten' /\ Flagged'
    BY <1>2, <1>5, <1>9 DEF RunInv, Kept, BestWritten, Flagged, Running
  <2>2. pc \notin {"idle", "match", "ended", "exited"}
    OBVIOUS
  <2>3. Output'
    BY <1>2, <1>3, <1>9, <2>2 DEF RunInv, Output
  <2> QED BY <2>1, <2>3
<1>11. SolvedNeedsNSolves => SolvedNeedsNSolves'
  <2>1. ASSUME NEW f \in mine, hits[f] >= NSolves PROVE hits'[f] >= NSolves
    <3>1. f \in Field
      BY <1>1, <2>1 DEF RunInv, TypeInv, Control, InField
    <3> QED BY <1>3, <1>5, <2>1, <3>1, Constants DEF RunInv, TypeInv
  <2> QED BY <1>2, <2>1 DEF SolvedNeedsNSolves
<1>12. ClocksSet'
  BY <1>1, <1>2 DEF RunInv, ClocksSet
<1>13. Searched'
  <2>1. stage = "search" => pc # "verify"
    BY DEF RunInv, Control
  <2>2. ASSUME NEW f, NEW n, Settled(f, n) PROVE Settled(f, n)'
    <3>1. CASE <<f, n>> \in full \cup limited \/ f \in solved \cup mine \cup misread
      BY <1>2, <3>1 DEF Settled, files
    <3>2. CASE single_field_solved \/ cancelled
      BY <1>2, <3>2 DEF Settled
    <3>3. CASE hit_limits # {}
      <4>1. hit_limits' # {}
        BY <1>3, <3>3
      <4> QED BY <4>1 DEF Settled
    <3> QED BY <2>2, <3>1, <3>2, <3>3 DEF Settled
  <2>3. ASSUME NEW f, NEW n, Waiting(f, n) PROVE Waiting(f, n)'
    BY <1>1, <2>3 DEF Waiting, InField
  <2>4. passes' = passes
    BY DEF passes
  <2> QED BY <1>1, <2>1, <2>2, <2>3, <2>4 DEF RunInv, Searched, InField
<1>14. ASSUME FirstInv PROVE FirstInv'
  <2>1. \A f \in mine' : [field |-> f, odds |-> Solve] \in solutions'
    BY <1>2, <1>3, <1>9, <1>14 DEF FirstInv, Reasons
  <2> QED BY <1>5, <1>9, <1>11, <1>14, <2>1
      DEF FirstInv, Fresh, Reasons, SolvedHasSolution, Running
<1> QED BY <1>6, <1>7, <1>8, <1>10, <1>12, <1>13, <1>14 DEF RunInv

LEMMA HitStep ==
  ASSUME RunInv, Hit
  PROVE  RunInv' /\ (FirstInv => FirstInv')
<1>1. PICK o \in {Keep, Solve} : record_match_callback(f_now, o)
  BY DEF Hit
<1>2. pc = "quads" => nsolves_sofar < MaxSolves
  BY Constants DEF Hit, RunInv, Counted, TypeInv, InField
<1> QED BY <1>1, <1>2, MatchStep DEF Hit

LEMMA VerifyFieldStep ==
  ASSUME RunInv, VerifyField
  PROVE  RunInv' /\ (FirstInv => FirstInv')
<1>1. CASE \E o \in {Keep, Solve} : record_match_callback(f_now, o)
  BY <1>1, MatchStep DEF VerifyField
<1>2. CASE UNCHANGED <<solver, solutions, hit_limits, best, hits>>
  <2>1. /\ pc = "verify" /\ pc' = "fieldDone"
        /\ UNCHANGED <<par, stage, pass, todo, obj, fieldlist, solver, solutions, limits,
                       since, files, history>>
    BY <1>2 DEF VerifyField, limits, history
  <2>2. stage = "verify" /\ f_now' = f_now
    BY <2>1 DEF RunInv, Control, f_now
  <2> USE DEF solver, limits, files, history
  <2>3. TypeInv'
    BY <2>1 DEF RunInv, TypeInv
  <2>4. Control' /\ Counted'
    BY <2>1, <2>2 DEF RunInv, Control, Counted, InField
  <2>5. Kept' /\ BestWritten' /\ Flagged' /\ Output'
    BY <2>1 DEF RunInv, Kept, Running, BestWritten, Flagged, Output
  <2>6. ClocksSet' /\ Searched'
    BY <2>1, <2>2 DEF RunInv, ClocksSet, Searched, InField
  <2>7. ASSUME FirstInv PROVE FirstInv'
    BY <2>1, <2>7
    DEF FirstInv, Fresh, Reasons, Running, SearchLimitNotEarly, SolvedNeedsNSolves,
        SolvedHasSolution
  <2> QED BY <2>3, <2>4, <2>5, <2>6, <2>7 DEF RunInv
<1> QED BY <1>1, <1>2 DEF VerifyField

LEMMA TimerStep ==
  ASSUME RunInv, timer_callback
  PROVE  RunInv' /\ (FirstInv => FirstInv')
<1>1. /\ pc = "timer" /\ InField /\ pc' \in {"fieldDone", "quads"} /\ InField'
      /\ UNCHANGED <<par, stage, pass, todo, obj, fieldlist, nsolves_sofar,
                     best_match_solves, solutions, single_field_solved, since,
                     files, mine, best, hits, full, limited>>
      /\ f_now' = f_now
  BY DEF timer_callback, isnt_field_solved, is_field_solved, InField, f_now
<1>2. f_now \in fieldlist /\ f_now \in todo
  BY <1>1, Now
<1>3. /\ check_time_limits
      /\ quit_now' = (quit_now \/ hit_limits' # {}) /\ quit_now \in BOOLEAN
  BY DEF timer_callback, RunInv, TypeInv
<1>4. /\ cancelled' \in BOOLEAN /\ (cancelled => cancelled')
      /\ cancelled' => cancelled \/ cancelFile
      /\ misread \subseteq misread' /\ misread' \subseteq misread \cup fieldlist
      /\ pc' = "fieldDone" => cancelled' \/ f_now \in solved \cup misread'
  BY <1>2 DEF timer_callback, is_field_solved, isnt_field_solved, RunInv, TypeInv
<1>5. /\ hit_limits \subseteq hit_limits' /\ hit_limits' \subseteq {c \in Clock : Limit[c] # 0}
      /\ hit_limits # {} => hit_limits' # {}
      /\ quit_now' \in BOOLEAN /\ (quit_now => quit_now')
      /\ quit_now' => quit_now \/ hit_limits' # {}
  BY <1>3, Checked
<1>6. TypeInv'
  BY <1>1, <1>4, <1>5 DEF RunInv, TypeInv, files
<1>7. Control'
  BY <1>1 DEF RunInv, Control, InField
<1>8. Counted'
  <2>1. /\ best_match_solves =>
             [field |-> f_now, odds |-> Solve] \in solutions /\ hits[f_now] >= NSolves
        /\ nsolves_sofar <= hits[f_now] \/ hits[f_now] = NSolves
        /\ nsolves_sofar >= NSolves => quit_now
        /\ quit_now => hit_limits # {} \/ best_match_solves
    BY <1>1 DEF RunInv, Counted
  <2>2. nsolves_sofar >= NSolves => quit_now'
    BY <1>5, <2>1
  <2>4. quit_now' => hit_limits' # {} \/ best_match_solves
    BY <1>5, <2>1
  <2> QED BY <1>1, <2>1, <2>2, <2>4 DEF Counted
<1>9. Kept' /\ BestWritten' /\ Flagged' /\ Output'
  <2>1. Kept' /\ BestWritten'
    BY <1>1 DEF RunInv, Kept, Running, BestWritten, files
  <2>2. Flagged'
    BY <1>1, <1>4 DEF RunInv, Flagged, files
  <2>3. Output'
    BY <1>1 DEF RunInv, Output, Running, files
  <2> QED BY <2>1, <2>2, <2>3
<1>10. ClocksSet'
  BY <1>1 DEF RunInv, ClocksSet
<1>11. SearchLimitNotEarly => SearchLimitNotEarly'
  BY <1>1, <1>3, Checked
<1>12. Searched'
  <2>1. ASSUME NEW f, NEW n, Settled(f, n) PROVE Settled(f, n)'
    <3>1. CASE <<f, n>> \in full \cup limited \/ f \in solved \cup mine \cup misread
      BY <1>1, <1>4, <3>1 DEF Settled, files
    <3>2. CASE single_field_solved \/ cancelled
      BY <1>1, <1>4, <3>2 DEF Settled
    <3>3. CASE hit_limits # {}
      BY <1>5, <3>3 DEF Settled
    <3> QED BY <2>1, <3>1, <3>2, <3>3 DEF Settled
  <2>2. ASSUME NEW f, NEW n, Waiting(f, n) PROVE Waiting(f, n)'
    BY <1>1, <2>2 DEF Waiting, InField
  <2>3. pc' = "fieldDone" => Settled(f_now, pass)'
    BY <1>1, <1>4 DEF Settled, files
  <2>4. passes' = passes
    BY <1>1 DEF passes
  <2> QED BY <1>1, <2>1, <2>2, <2>3, <2>4 DEF RunInv, Searched
<1>13. ASSUME FirstInv PROVE FirstInv'
  BY <1>1, <1>11, <1>13
  DEF FirstInv, Fresh, Reasons, Running, SolvedNeedsNSolves, SolvedHasSolution, files
<1> QED BY <1>6, <1>7, <1>8, <1>9, <1>10, <1>12, <1>13 DEF RunInv

LEMMA NextObjectStep ==
  ASSUME RunInv, NextObject
  PROVE  RunInv' /\ (FirstInv => FirstInv')
<1>1. /\ pc \in {"quads", "permuting"} /\ InField /\ InField' /\ pc' \in {"timer", "fieldDone"}
      /\ UNCHANGED <<par, stage, pass, todo, fieldlist, solver, solutions, limits,
                     since, files, mine, best, hits, misread>>
      /\ f_now' = f_now
  BY DEF NextObject, InField, f_now
<1>2. stage = "search" /\ f_now \in Field /\ pass \in Nat
  BY <1>1, Now DEF RunInv, Control, TypeInv
<1>3. /\ full \subseteq full' /\ full' \subseteq full \cup {<<f_now, pass>>}
      /\ limited \subseteq limited' /\ limited' \subseteq limited \cup {<<f_now, pass>>}
      /\ pc' = "fieldDone" =>
           UNCHANGED obj /\ (quit_now \/ <<f_now, pass>> \in full' \cup limited')
      /\ pc' = "timer" => obj' = obj + 1 /\ obj + 1 < numxy
  BY DEF NextObject
<1> USE DEF solver, limits, files
<1>4. TypeInv'
  <2>1. obj' \in 0..NumObj /\ (pc' = "timer" => obj' < NumObj)
    BY <1>1, <1>3, Constants DEF RunInv, TypeInv, numxy, Params
  <2>2. full' \subseteq Field \X Nat /\ limited' \subseteq Field \X Nat
    BY <1>2, <1>3 DEF RunInv, TypeInv
  <2> QED BY <1>1, <2>1, <2>2 DEF RunInv, TypeInv
<1>5. Control'
  BY <1>1, <1>2 DEF RunInv, Control
<1>6. Counted'
  BY <1>1 DEF RunInv, Counted
<1>7. Kept' /\ BestWritten' /\ Flagged' /\ Output'
  BY <1>1 DEF RunInv, Kept, Running, BestWritten, Flagged, Output
<1>8. ClocksSet'
  BY <1>1 DEF RunInv, ClocksSet
<1>9. Searched'
  <2>1. ASSUME NEW f, NEW n, Settled(f, n) PROVE Settled(f, n)'
    BY <1>1, <1>3, <2>1 DEF Settled
  <2>2. ASSUME NEW f, NEW n, Waiting(f, n) PROVE Waiting(f, n)'
    BY <1>1, <2>2 DEF Waiting
  <2>3. pc' = "fieldDone" => Settled(f_now, pass)' \/ best_match_solves'
    BY <1>1, <1>3 DEF RunInv, Counted, Settled
  <2>4. passes' = passes
    BY <1>1 DEF passes
  <2> QED BY <1>1, <2>1, <2>2, <2>3, <2>4 DEF RunInv, Searched, InField
<1>10. ASSUME FirstInv PROVE FirstInv'
  BY <1>1, <1>10
  DEF FirstInv, Fresh, Reasons, Running, SearchLimitNotEarly, SolvedNeedsNSolves,
      SolvedHasSolution
<1> QED BY <1>4, <1>5, <1>6, <1>7, <1>8, <1>9, <1>10 DEF RunInv

-----------------------------------------------------------------------------
(* The end of the run. *)

LEMMA WriteMatchStep ==
  ASSUME RunInv, WriteMatch
  PROVE  RunInv' /\ (FirstInv => FirstInv')
<1>1. /\ pc = "match" /\ pc' \in {"ended", "wcs", "exited"} /\ matchFile' \subseteq Solution
      /\ pc' = "ended" => solutions = {}
      /\ pc' = "wcs" => matchFile' = solutions
      /\ UNCHANGED <<par, stage, pass, todo, obj, fieldlist, solver, solutions,
                     limits, since, solved, cancelFile, wcsFile, history>>
  BY DEF WriteMatch, RunInv, TypeInv
<1> USE DEF solver, limits, history
<1>2. TypeInv'
  BY <1>1 DEF RunInv, TypeInv
<1>3. Control' /\ Counted'
  BY <1>1 DEF RunInv, Control, Counted, InField
<1>4. Kept' /\ BestWritten' /\ Flagged'
  BY <1>1 DEF RunInv, Kept, Running, BestWritten, Flagged
<1>5. Output'
  <2>1. solutions = {} => pc' = "ended" /\ UNCHANGED matchFile
    BY DEF WriteMatch
  <2>2. solutions # {} => pc' \in {"wcs", "exited"}
    BY DEF WriteMatch
  <2> QED BY <1>1, <2>1, <2>2 DEF RunInv, Output, Running
<1>6. ClocksSet' /\ Searched'
  BY <1>1 DEF RunInv, ClocksSet, Searched, Settled, Waiting, InField, passes
<1>7. ASSUME FirstInv PROVE FirstInv'
  BY <1>1, <1>7
  DEF FirstInv, Fresh, Reasons, Running, SearchLimitNotEarly, SolvedNeedsNSolves,
      SolvedHasSolution
<1> QED BY <1>2, <1>3, <1>4, <1>5, <1>6, <1>7 DEF RunInv

LEMMA WriteWcsStep ==
  ASSUME RunInv, WriteWcs
  PROVE  RunInv' /\ (FirstInv => FirstInv')
<1> DEFINE S == remove_duplicate_solutions(solutions)
           F == {s.field : s \in S}
           new(G) == [f \in Field |-> IF f \in G
                        THEN (CHOOSE s \in S : s.field = f).odds ELSE wcsFile[f]]
<1>1. /\ pc = "wcs" /\ Running /\ matchFile = solutions
      /\ UNCHANGED <<par, stage, pass, todo, obj, fieldlist, solver, limits,
                     since, solved, cancelFile, matchFile, history>>
  BY DEF WriteWcs, RunInv, Kept, Running
<1>2. wcsFile \in [Field -> Odds]
  BY DEF RunInv, TypeInv
<1>3. \/ pc' = "ended" /\ wcsFile' = new(F) /\ solutions' = {}
      \/ \E G \in SUBSET F : pc' = "exited" /\ wcsFile' = new(G) /\ solutions' = S
  BY <1>2 DEF WriteWcs
<1>4. \A s \in S : s \in solutions /\ s.odds \in {Keep, Solve} /\ s.field \in Field
  BY DEF remove_duplicate_solutions, RunInv, TypeInv, Solution
<1>5. \A s, t \in S : s.field = t.field => s.odds = t.odds
  BY <1>4 DEF remove_duplicate_solutions, Keep, Solve
<1>6. ASSUME NEW f \in F
      PROVE  LET c == CHOOSE s \in S : s.field = f IN c \in S /\ c.field = f
  BY <1>6
<1> HIDE DEF S
<1>7. ASSUME NEW G \in SUBSET F PROVE new(G) \in [Field -> Odds]
  BY <1>2, <1>4, <1>6 DEF Odds
<1>8. ASSUME NEW s \in S PROVE new(F)[s.field] = s.odds
  BY <1>4, <1>5, <1>6
<1>9. S \subseteq solutions /\ S \subseteq Solution
  BY <1>4 DEF RunInv, TypeInv
<1>10. /\ mine \subseteq Field
       /\ \A f \in Field : [field |-> f, odds |-> Solve] \in solutions =>
                           [field |-> f, odds |-> Solve] \in S
       /\ \A f \in Field : best[f] # None => [field |-> f, odds |-> best[f]] \in S
  <2>1. mine \subseteq Field
    BY <1>1 DEF RunInv, TypeInv, Control
  <2> QED BY <1>1, <2>1, BestStays DEF RunInv, Kept, S
<1> HIDE DEF new, F
<1>11. pc' \in {"ended", "exited"} /\ solutions' \subseteq solutions
       /\ wcsFile' \in [Field -> Odds]
  BY <1>3, <1>7, <1>9
<1> USE DEF solver, limits, history
<1>12. TypeInv'
  BY <1>1, <1>11 DEF RunInv, TypeInv
<1>13. Control' /\ Counted'
  BY <1>1, <1>11 DEF RunInv, Control, Counted, InField
<1>14. Kept' /\ Flagged'
  BY <1>1, <1>11 DEF RunInv, Kept, Running, Flagged
<1>15. ASSUME NEW f \in mine, [field |-> f, odds |-> Solve] \in solutions, pc' = "ended"
       PROVE  wcsFile'[f] = Solve
  <2> DEFINE s == [field |-> f, odds |-> Solve]
  <2>1. s \in S /\ s.field = f /\ s.odds = Solve
    BY <1>10, <1>15
  <2> HIDE DEF s
  <2> QED BY <1>3, <1>8, <1>15, <2>1
<1>16. BestWritten'
  <2> SUFFICES ASSUME NEW f \in Field, pc' = "ended", best[f] # None
               PROVE  /\ wcsFile'[f] = best[f]
                      /\ [field |-> f, odds |-> best[f]] \in matchFile
    BY <1>1, <1>11 DEF BestWritten
  <2> DEFINE s == [field |-> f, odds |-> best[f]]
  <2>1. s \in S /\ s.field = f /\ s.odds = best[f]
    BY <1>10
  <2>2. s \in matchFile
    BY <1>1, <1>9, <2>1
  <2>3. wcsFile'[f] = best[f]
    <3> HIDE DEF s
    <3> QED BY <1>3, <1>8, <2>1
  <2> QED BY <2>2, <2>3
<1>17. Output'
  <2> SUFFICES ASSUME Cardinality(fieldlist) = 1, pc' = "ended", NEW f \in mine
               PROVE  /\ solutions' = {} /\ wcsFile'[f] = Solve
                      /\ [field |-> f, odds |-> Solve] \in matchFile
    BY <1>1, <1>11 DEF Output
  <2>1. [field |-> f, odds |-> Solve] \in solutions
    BY <1>1 DEF RunInv, Output
  <2> QED BY <1>1, <1>3, <1>15, <2>1
<1>18. ClocksSet' /\ Searched'
  BY <1>1, <1>11 DEF RunInv, ClocksSet, Searched, Settled, Waiting, InField, passes
<1>19. ASSUME FirstInv PROVE FirstInv'
  <2>1. \A f \in mine : [field |-> f, odds |-> Solve] \in solutions
    BY <1>1, <1>19 DEF FirstInv, Reasons
  <2>2. SolvedHasSolution' /\ Reasons'
    BY <1>1, <1>11, <1>15, <2>1 DEF SolvedHasSolution, Reasons, Running
  <2> QED BY <1>1, <1>11, <1>19, <2>2
      DEF FirstInv, Fresh, SearchLimitNotEarly, SolvedNeedsNSolves
<1> QED BY <1>12, <1>13, <1>14, <1>16, <1>17, <1>18, <1>19 DEF RunInv

-----------------------------------------------------------------------------
(* Steps of others, and the end. *)

LEMMA TickStep ==
  ASSUME RunInv, Tick
  PROVE  RunInv' /\ (FirstInv => FirstInv')
<1>1. /\ pc # "idle"
      /\ UNCHANGED <<par, control, fieldlist, solver, solutions, limits, files, history>>
  BY DEF Tick
<1>10. PICK running \in {Wall, Clock} :
         since' = [c \in Clock |-> IF c \in running THEN Later(c) ELSE since[c]]
  BY DEF Tick
<1>11. /\ since \in [Clock -> Int]
       /\ \A c \in Clock : since[c] \in 0..Cap[c] \/ (c = "time" /\ since[c] = Skewed)
  BY DEF RunInv, TypeInv
<1>12. \A c \in Clock : since'[c] = IF c \in running /\ since[c] \in 0..Cap[c] - 1
                                    THEN since[c] + 1 ELSE since[c]
  BY <1>10 DEF Later
<1>2. /\ since' \in [Clock -> Int]
      /\ \A c \in Clock : since'[c] \in 0..Cap[c] \/ (c = "time" /\ since'[c] = Skewed)
      /\ \A c \in Clock : since'[c] >= since[c]
  <2>1. \A c \in Clock : since'[c] \in Int /\ since'[c] >= since[c]
    BY <1>11, <1>12, ClockBounds
  <2>2. \A c \in Clock : since'[c] \in 0..Cap[c] \/ (c = "time" /\ since'[c] = Skewed)
    BY <1>11, <1>12, ClockBounds
  <2>4. since' = [c \in Clock |-> since'[c]]
    BY <1>10
  <2>5. since' \in [Clock -> Int]
    BY <2>1, <2>4
  <2> QED BY <2>1, <2>2, <2>5
<1>13. ASSUME NEW c \in Clock, since[c] <= since[Whole[c]]
       PROVE  since'[c] <= since'[Whole[c]]
  <2>1. /\ Whole[c] \in Clock /\ Whole[c] # "time" /\ Cap[Whole[c]] = Cap[c]
        /\ Whole[c] \in running <=> c \in running
    BY ClockBounds DEF OfRun
  <2>2. since[Whole[c]] \in 0..Cap[c] /\ Cap[c] \in Nat
    BY <1>11, <2>1, ClockBounds
  <2>3. since[c] \in -1..Cap[c] /\ (since[c] = -1 \/ since[c] \in 0..Cap[c])
    BY <1>11, <2>2, ClockBounds
  <2> QED BY <1>12, <1>13, <2>1, <2>2, <2>3
<1> USE DEF control, solver, limits, files, history
<1>3. TypeInv'
  BY <1>1, <1>2 DEF RunInv, TypeInv
<1>4. Control'
  BY <1>1 DEF RunInv, Control, InField
<1>5. Counted'
  <2>1. f_now' = f_now
    BY <1>1 DEF f_now
  <2> QED BY <1>1, <2>1 DEF RunInv, Counted, InField
<1>6. Kept' /\ BestWritten' /\ Flagged' /\ Output'
  BY <1>1 DEF RunInv, Kept, Running, BestWritten, Flagged, Output
<1>7. ClocksSet'
  BY <1>1, <1>13 DEF RunInv, ClocksSet, InField
<1>8. ASSUME FirstInv PROVE FirstInv'
  <2>1. SearchLimitNotEarly'
    <3> SUFFICES ASSUME par.wcss = 0, NEW c \in hit_limits
                 PROVE  since'[Whole[c]] > Limit[c]
      BY <1>1 DEF SearchLimitNotEarly
    <3>1. c \in Clock
      BY DEF RunInv, TypeInv
    <3>2. since[Whole[c]] > Limit[c]
      BY <1>8 DEF FirstInv, SearchLimitNotEarly
    <3>3. /\ since'[Whole[c]] >= since[Whole[c]] /\ Limit[c] \in Int
          /\ since'[Whole[c]] \in Int /\ since[Whole[c]] \in Int
      <4>1. Whole[c] \in Clock /\ Limit[c] \in Nat
        BY <3>1, ClockBounds
      <4>2. PICK w \in Clock : w = Whole[c]
        BY <4>1
      <4>3. since'[w] >= since[w] /\ since'[w] \in Int /\ since[w] \in Int
        BY <1>2, <1>11
      <4> QED BY <4>1, <4>2, <4>3
    <3> QED BY <3>2, <3>3
  <2> QED BY <1>1, <1>8, <2>1
      DEF FirstInv, Fresh, Reasons, Running, SolvedNeedsNSolves, SolvedHasSolution
<1>9. Searched'
  <2>1. f_now' = f_now
    BY <1>1 DEF f_now
  <2>2. passes' = passes
    BY <1>1 DEF passes
  <2> QED BY <1>1, <2>1, <2>2 DEF RunInv, Searched, Settled, Waiting, InField
<1> QED BY <1>3, <1>4, <1>5, <1>6, <1>7, <1>8, <1>9 DEF RunInv

\* Another process marks fields or creates the cancel file.
LEMMA QuietStep ==
  ASSUME RunInv, solved \subseteq solved', solved' \subseteq Field, cancelFile' \in BOOLEAN,
         cancelFile => cancelFile',
         UNCHANGED <<par, control, fieldlist, solver, solutions, limits, since,
                     matchFile, wcsFile, history>>
  PROVE  RunInv' /\ (FirstInv => FirstInv')
<1> USE DEF control, solver, limits, history
<1>1. f_now' = f_now /\ passes' = passes
  <2>1. f_now' = f_now
    BY DEF f_now
  <2> QED BY <2>1 DEF passes
<1>2. TypeInv'
  BY DEF RunInv, TypeInv
<1>3. Control'
  BY DEF RunInv, Control, InField
<1>4. Counted'
  BY <1>1 DEF RunInv, Counted, InField
<1>5. Kept' /\ BestWritten' /\ Flagged' /\ Output'
  BY DEF RunInv, Kept, Running, BestWritten, Flagged, Output
<1>6. ClocksSet'
  BY DEF RunInv, ClocksSet, InField
<1>7. Searched'
  BY <1>1 DEF RunInv, Searched, Settled, Waiting, InField
<1>8. ASSUME FirstInv PROVE FirstInv'
  BY <1>8
  DEF FirstInv, Fresh, Reasons, Running, SearchLimitNotEarly, SolvedNeedsNSolves,
      SolvedHasSolution
<1> QED BY <1>2, <1>3, <1>4, <1>5, <1>6, <1>7, <1>8 DEF RunInv

LEMMA EnvironmentStep ==
  ASSUME RunInv, Environment
  PROVE  RunInv' /\ (FirstInv => FirstInv')
<1>1. CASE Tick
  BY <1>1, TickStep
<1>2. CASE OtherSolves \/ CreateCancelFile
  <2>1. UNCHANGED <<par, control, fieldlist, solver, solutions, limits, since,
                    matchFile, wcsFile, history>>
    BY <1>2 DEF OtherSolves, CreateCancelFile
  <2>2. solved \subseteq solved' /\ solved' \subseteq Field
    BY <1>2 DEF OtherSolves, CreateCancelFile, RunInv, TypeInv
  <2>3. cancelFile' \in BOOLEAN /\ (cancelFile => cancelFile')
    <3>1. cancelFile \in BOOLEAN
      BY DEF RunInv, TypeInv
    <3>2. cancelFile' = cancelFile \/ cancelFile' = TRUE
      BY <1>2 DEF OtherSolves, CreateCancelFile
    <3> QED BY <3>1, <3>2
  <2> QED BY <2>1, <2>2, <2>3, QuietStep
<1> QED BY <1>1, <1>2 DEF Environment

LEMMA StutterStep ==
  ASSUME RunInv, UNCHANGED vars
  PROVE  RunInv' /\ (FirstInv => FirstInv')
<1>1. /\ UNCHANGED <<solved, cancelFile>>
      /\ UNCHANGED <<par, control, fieldlist, solver, solutions, limits, since,
                     matchFile, wcsFile, history>>
  BY DEF vars, files
<1>2. solved \subseteq solved' /\ solved' \subseteq Field /\ cancelFile' \in BOOLEAN
  BY <1>1 DEF RunInv, TypeInv
<1> QED BY <1>1, <1>2, QuietStep

LEMMA StepInvariant ==
  ASSUME RunInv, Step \/ Hit
  PROVE  RunInv' /\ (FirstInv => FirstInv')
  BY PassStep, VerifyEndStep, SkipFieldStep, StartFieldStep, VerifyFieldStep,
     TimerStep, NextObjectStep, FieldDoneStep, WriteMatchStep, WriteWcsStep, HitStep
  DEF Step

LEMMA NextInvariant == IInv /\ [Next]_vars => IInv'
<1> SUFFICES ASSUME IInv, [Next]_vars PROVE IInv'
  OBVIOUS
<1>1. RunInv /\ FirstInv
  BY DEF IInv
<1>2. CASE StartRun(par)
  <2>1. par \in Params
    BY <1>1 DEF RunInv, TypeInv
  <2> QED BY <1>1, <1>2, <2>1, StartRunStep DEF IInv
<1>3. CASE Step \/ Hit
  BY <1>1, <1>3, StepInvariant DEF IInv
<1>4. CASE Environment
  BY <1>1, <1>4, EnvironmentStep DEF IInv
<1>5. CASE UNCHANGED vars
  BY <1>1, <1>5, StutterStep DEF IInv
<1> QED BY <1>2, <1>3, <1>4, <1>5 DEF Next, Terminated

LEMMA Invariant == Spec => []IInv
<1>1. Init => IInv
  BY InitRun, RunsAssumption DEF Init
<1>2. IInv /\ [Next]_vars => IInv'
  BY NextInvariant
<1> QED BY <1>1, <1>2, PTL DEF Spec

-----------------------------------------------------------------------------
(* The runs of a job. *)

\* Nothing more is to be done for object k of the field with the indexes of scale s.
Treated(f, k, s) ==
  \/ \A x \in indexlist(Scales[s]) : <<f, k, s, x>> \in seen
  \/ f \in solved \cup mine \cup misread
  \/ cancelFile \/ hit_limits # {}

Readable == (Fields \cap Field) \ Unreadable

\* The objects of depth range d, counted from 1.
Ranged(d) == (Depths[d][1]..(IF Depths[d][2] = 0 THEN NumObj ELSE Depths[d][2])) \cap 1..NumObj

\* Where the job is.
JobControl ==
  /\ epc \in {"start", "next", "running", "aborted", "done"}
  /\ depth \in Nat \ {0} /\ scale \in Nat \ {0}
  /\ epc = "running" <=> pc # "idle"
  /\ epc = "start" => mine = {}
  /\ Fields \cap Field \subseteq fieldlist

\* The run in progress is that of this depth and scale.  The end of its range may
\* be that of an earlier one.
JobRun ==
  /\ epc = "running" =>
       /\ depth <= Len(Depths) /\ scale <= Len(Scales)
       /\ par.start = StartObj(Depths[depth])
       /\ par.indexes = Cardinality(indexlist(Scales[scale]))
       /\ EndObj(Depths[depth]) # 0 => par.end = EndObj(Depths[depth])
  /\ par.end # 0 => \E a \in 1..Len(Depths) : a <= depth /\ Depths[a][2] # 0

\* What the run in progress has searched to the end is seen.
Noted ==
  epc = "running" =>
    /\ \A f \in Field, n \in Nat, k \in Nat :
         <<f, n>> \in full /\ par.start < k /\ k <= numxy =>
           \A x \in Searching(n) : <<f, k, scale, x>> \in seen
    /\ pc \in {"timer", "quads", "permuting"} =>
         \A k \in Nat : par.start < k /\ k <= obj =>
           \A x \in Searching(pass) : <<f_now, k, scale, x>> \in seen
    /\ limited = {}

\* The depth and scale ranges that had a run are treated.
Covered ==
  \A d \in 1..Len(Depths), s \in 1..Len(Scales) :
    d < depth \/ (d = depth /\ s < scale) =>
      \A f \in Readable, k \in Ranged(d) : Treated(f, k, s)

\* Why the job is done.
Finished ==
  epc = "done" =>
    \/ depth > Len(Depths) \/ cancelFile
    \/ \E f \in fieldlist : fieldlist = {f} /\ f \in solved \cup misread

JobInv == RunInv /\ JobControl

SearchInv == JobInv /\ JobRun /\ Noted /\ Covered /\ Finished

-----------------------------------------------------------------------------
\* Of the indexes of a scale, each has its turn.
LEMMA IndexTurns ==
  ASSUME NEW s
  PROVE  LET list == indexlist(s)
         IN  /\ Cardinality(list) \in Nat
             /\ \A x \in list : Cardinality({y \in list : y <= x}) \in 1..Cardinality(list)
<1> DEFINE list == indexlist(s)
<1>1. DOMAIN Indexes = 1..Len(Indexes) /\ Len(Indexes) \in Nat
  BY EngineAssumption
<1>2. IsFiniteSet(list) /\ list \subseteq Nat
  <2>1. list \subseteq 1..Len(Indexes)
    <3>1. InRange \subseteq DOMAIN Indexes
      BY EngineAssumption
    <3>2. list \subseteq InRange
      BY DEF indexlist
    <3> QED BY <1>1, <3>1, <3>2
  <2>2. IsFiniteSet(1..Len(Indexes))
    BY <1>1, FS_Interval
  <2> HIDE DEF list
  <2>3. list \subseteq Nat
    BY <1>1, <2>1
  <2>4. IsFiniteSet(list)
    BY <2>1, <2>2, FS_Subset
  <2> QED BY <2>3, <2>4
<1>3. Cardinality(list) \in Nat
  BY <1>2, FS_CardinalityType
<1> HIDE DEF list
<1>4. ASSUME NEW x \in list
      PROVE  Cardinality({y \in list : y <= x}) \in 1..Cardinality(list)
  <2> DEFINE T == {y \in list : y <= x}
  <2>1. T \subseteq list /\ x \in T
    BY <1>2
  <2> HIDE DEF T
  <2>2. IsFiniteSet(T) /\ Cardinality(T) <= Cardinality(list)
    BY <1>2, <2>1, FS_Subset
  <2>3. Cardinality(T) \in Nat /\ Cardinality(T) # 0
    BY <2>1, <2>2, FS_CardinalityType, FS_EmptySet
  <2> QED BY <1>3, <2>2, <2>3 DEF T
<1> QED BY <1>3, <1>4 DEF list

LEMMA DepthTypes ==
  /\ Len(Depths) \in Nat /\ Len(Scales) \in Nat /\ Len(Scales) >= 1
  /\ \A d \in 1..Len(Depths) : Depths[d] \in Nat \X Nat
  /\ \A s \in 1..Len(Scales) : Scales[s] \in Nat \X Nat
  BY EngineAssumption

\* What engine_run_job sets up for a run.
LEMMA RunParamsType ==
  ASSUME RunInv, JobControl, depth <= Len(Depths), scale <= Len(Scales)
  PROVE  /\ runParams \in Params /\ runParams.wcss = par.wcss
         /\ runParams.indexes = Cardinality(indexlist(Scales[scale]))
         /\ runParams.start = StartObj(Depths[depth])
         /\ runParams.end = IF EndObj(Depths[depth]) # 0 THEN EndObj(Depths[depth])
                                                         ELSE par.end
<1>1. Depths[depth] \in Nat \X Nat
  BY DepthTypes DEF JobControl
<1>2. Cardinality(indexlist(Scales[scale])) \in Nat
  BY IndexTurns
<1>3. par.end \in Nat /\ par.wcss \in Nat
  BY DEF RunInv, TypeInv, Params
<1>4. StartObj(Depths[depth]) \in Nat /\ EndObj(Depths[depth]) \in Nat
  BY <1>1 DEF StartObj, EndObj
<1> QED BY <1>2, <1>3, <1>4 DEF runParams, Params

\* What one process or another has settled stays so.
Grown ==
  /\ solved \subseteq solved' /\ mine \subseteq mine' /\ misread \subseteq misread'
  /\ cancelFile => cancelFile'
  /\ hit_limits \subseteq hit_limits'

\* What the steps of a run leave alone.
LEMMA StepFrame ==
  ASSUME RunInv, Step \/ Hit
  PROVE  pc # "idle" /\ pc' # "idle" /\ UNCHANGED <<par, fieldlist>> /\ Grown
<1> USE DEF Grown, limits, files, history
<1>1. CASE VerifyPass \/ SearchPass \/ PassEnd \/ TimerWaits
  BY <1>1 DEF VerifyPass, SearchPass, PassEnd, TimerWaits
<1>2. CASE VerifyEnd
  BY <1>2 DEF VerifyEnd, solved_field
<1>3. CASE SkipField
  BY <1>3 DEF SkipField, is_field_solved
<1>4. CASE StartField
  BY <1>4 DEF StartField, isnt_field_solved
<1>5. CASE VerifyField
  <2>1. CASE UNCHANGED <<solver, solutions, hit_limits, best, hits>>
    BY <1>5, <2>1 DEF VerifyField
  <2>2. CASE \E o \in {Keep, Solve} : record_match_callback(f_now, o)
    <3>1. check_time_limits
      BY <2>2 DEF record_match_callback
    <3>2. hit_limits \subseteq hit_limits'
      BY <3>1, Checked
    <3> QED BY <1>5, <3>2 DEF VerifyField
  <2> QED BY <1>5, <2>1, <2>2 DEF VerifyField
<1>6. CASE Hit
  <2>1. check_time_limits
    BY <1>6 DEF Hit, record_match_callback
  <2>2. hit_limits \subseteq hit_limits'
    BY <2>1, Checked
  <2> QED BY <1>6, <2>2 DEF Hit
<1>7. CASE timer_callback
  <2>1. check_time_limits
    BY <1>7 DEF timer_callback
  <2>2. hit_limits \subseteq hit_limits'
    BY <2>1, Checked
  <2> QED BY <1>7, <2>2 DEF timer_callback, is_field_solved, isnt_field_solved
<1>8. CASE NextObject
  BY <1>8 DEF NextObject
<1>9. CASE FieldDone
  BY <1>9 DEF FieldDone, solved_field
<1>10. CASE WriteMatch \/ WriteWcs
  BY <1>10 DEF WriteMatch, WriteWcs
<1> QED BY <1>1, <1>2, <1>3, <1>4, <1>5, <1>6, <1>7, <1>8, <1>9, <1>10 DEF Step

LEMMA EnvironmentFrame ==
  ASSUME RunInv, Environment
  PROVE  UNCHANGED <<par, control, fieldlist, mine, misread, full, limited>> /\ Grown
<1> USE DEF Grown, limits, files, history
<1>1. CASE Tick
  BY <1>1 DEF Tick
<1>2. CASE OtherSolves
  BY <1>2 DEF OtherSolves
<1>3. CASE CreateCancelFile
  BY <1>3 DEF CreateCancelFile
<1> QED BY <1>1, <1>2, <1>3 DEF Environment

\* A job that has become obsolete was cancelled, or its only field is solved.
LEMMA ObsoleteAnswer ==
  ASSUME RunInv, NEW answer \in BOOLEAN, blind_is_run_obsolete(answer)
  PROVE  /\ misread \subseteq misread' /\ misread' \subseteq misread \cup fieldlist
         /\ answer => \/ cancelFile
                      \/ \E f \in fieldlist : fieldlist = {f} /\ f \in solved \cup misread'
<1> DEFINE single == Cardinality(fieldlist) = 1 /\ UseSolved
           f == CHOOSE g \in fieldlist : TRUE
<1>1. \/ single /\ is_field_solved(f) /\ answer
      \/ /\ IF single THEN isnt_field_solved(f) ELSE UNCHANGED misread
         /\ answer = cancelFile
  BY DEF blind_is_run_obsolete
<1>2. single => fieldlist = {f}
  <2>1. IsFiniteSet(fieldlist)
    BY BlindAssumption, FS_Subset DEF RunInv, TypeInv
  <2>2. Cardinality(fieldlist) = 1 <=> \E x : fieldlist = {x}
    BY <2>1, FS_Singleton
  <2> QED BY <2>2
<1> HIDE DEF single, f
<1>3. CASE single /\ is_field_solved(f) /\ answer
  BY <1>2, <1>3 DEF is_field_solved
<1>4. CASE /\ IF single THEN isnt_field_solved(f) ELSE UNCHANGED misread
           /\ answer = cancelFile
  BY <1>4 DEF isnt_field_solved
<1> QED BY <1>1, <1>3, <1>4

\* Between two runs only the estimates and the solutions are cleared, and the
\* solved file may be misread.
LEMMA IdleStep ==
  ASSUME RunInv, pc \in {"idle", "ended"}, pc' = "idle", solutions' = {}, par' \in Params,
         par'.wcss = IF pc = "idle" THEN par.wcss ELSE 0,
         misread \subseteq misread', misread' \subseteq misread \cup fieldlist,
         UNCHANGED <<stage, pass, todo, obj, fieldlist, solver, limits, since, files,
                     mine, best, hits, full, limited>>
  PROVE  RunInv'
<1> USE DEF solver, limits, files
<1>1. TypeInv'
  BY DEF RunInv, TypeInv
<1>2. Control' /\ Counted'
  BY DEF RunInv, Control, Counted, InField
<1>3. Kept' /\ BestWritten' /\ Flagged'
  BY DEF RunInv, Kept, BestWritten, Flagged, Running
<1>4. Output'
  <2> SUFFICES ASSUME Cardinality(fieldlist) = 1, NEW g \in mine
               PROVE  /\ wcsFile[g] = Solve /\ [field |-> g, odds |-> Solve] \in matchFile
                      /\ par'.wcss = 0
    BY DEF Output
  <2> QED BY DEF RunInv, Output, Running
<1>5. ClocksSet' /\ Searched'
  BY DEF ClocksSet, Searched, InField
<1> QED BY <1>1, <1>2, <1>3, <1>4, <1>5 DEF RunInv

LEMMA JobInitInvariant == JobInit => SearchInv
<1> SUFFICES ASSUME JobInit PROVE SearchInv
  OBVIOUS
<1>1. InitJob /\ par \in Params
  BY EngineAssumption DEF JobInit, Params
<1>2. RunInv
  BY <1>1, InitRun DEF IInv
<1>3. JobControl /\ Noted /\ Finished
  BY <1>1 DEF JobInit, InitJob, JobControl, Noted, Finished
<1>4. JobRun
  BY DEF JobInit, JobRun
<1>5. Covered
  BY DEF JobInit, Covered
<1> QED BY <1>2, <1>3, <1>4, <1>5 DEF SearchInv, JobInv

-----------------------------------------------------------------------------
\* Every step of a job keeps the invariant of its runs.
LEMMA JobInvariantStep ==
  ASSUME JobInv, [JobNext]_jobVars
  PROVE  JobInv' /\ Grown /\ seen \subseteq seen'
<1>1. RunInv /\ JobControl
  BY DEF JobInv
<1>2. CASE JobStart
  <2>1. PICK a \in BOOLEAN : /\ blind_is_run_obsolete(a)
                             /\ epc' = IF a THEN "done" ELSE "next"
    BY <1>2 DEF JobStart
  <2>2. /\ epc = "start" /\ pc = "idle" /\ solutions = {}
        /\ UNCHANGED <<par, control, fieldlist, solver, solutions, limits, since, files,
                       mine, best, hits, full, limited, depth, scale, seen>>
    BY <1>1, <1>2 DEF JobStart, JobControl, RunInv, Kept
  <2>3. misread \subseteq misread' /\ misread' \subseteq misread \cup fieldlist
    BY <1>1, <2>1, ObsoleteAnswer
  <2>4. par' \in Params
    BY <1>1, <2>2 DEF RunInv, TypeInv
  <2>5. RunInv'
    <3>1. UNCHANGED <<stage, pass, todo, obj, fieldlist, solver, limits, since, files,
                      mine, best, hits, full, limited>>
      BY <2>2 DEF control
    <3>2. pc' = "idle" /\ solutions' = {} /\ par'.wcss = par.wcss
      BY <2>2 DEF control
    <3> QED BY <1>1, <2>2, <2>3, <2>4, <3>1, <3>2, IdleStep
  <2>6. JobControl'
    BY <1>1, <2>1, <2>2 DEF JobControl, control
  <2>7. Grown
    BY <2>2, <2>3 DEF Grown, files, limits
  <2> QED BY <2>2, <2>5, <2>6, <2>7 DEF JobInv
<1>3. CASE NextRun
  <2>1. /\ epc = "next" /\ depth <= Len(Depths) /\ scale <= Len(Scales)
        /\ UNCHANGED <<depth, scale, seen>>
    BY <1>3 DEF NextRun
  <2>2. CASE hasIndexes(Scales[scale])
    <3>1. StartRun(runParams) /\ epc' = "running"
      BY <1>3, <2>2 DEF NextRun
    <3>2. runParams \in Params /\ runParams.wcss = par.wcss
      BY <1>1, <2>1, RunParamsType
    <3>3. RunInv'
      BY <1>1, <3>1, <3>2, StartRunStep
    <3>4. JobControl'
      BY <1>1, <2>1, <3>1 DEF JobControl, StartRun
    <3>5. Grown
      BY <3>1 DEF StartRun, Grown, files, limits
    <3> QED BY <2>1, <3>3, <3>4, <3>5 DEF JobInv
  <2>3. CASE ~ hasIndexes(Scales[scale])
    <3>1. epc' = "aborted" /\ UNCHANGED vars
      BY <1>3, <2>3 DEF NextRun
    <3>2. RunInv'
      BY <1>1, <3>1, StutterStep
    <3>3. JobControl' /\ Grown
      BY <1>1, <2>1, <3>1 DEF JobControl, Grown, vars, control, files, limits, history
    <3> QED BY <2>1, <3>2, <3>3 DEF JobInv
  <2> QED BY <2>2, <2>3
<1>4. CASE NextDepth \/ JobEnd
  <2>1. /\ UNCHANGED <<vars, seen>> /\ epc = "next" /\ epc' \in {"next", "done"}
        /\ depth' \in {depth, depth + 1} /\ scale' \in {scale, 1}
    BY <1>4 DEF NextDepth, JobEnd
  <2>2. RunInv'
    BY <1>1, <2>1, StutterStep
  <2>3. JobControl' /\ Grown
    BY <1>1, <2>1 DEF JobControl, Grown, vars, control, files, limits, history
  <2> QED BY <2>1, <2>2, <2>3 DEF JobInv
<1>5. CASE RunDone
  <2>1. PICK a \in BOOLEAN : /\ blind_is_run_obsolete(a)
                             /\ epc' = IF a THEN "done" ELSE "next"
    BY <1>5 DEF RunDone
  <2>2. /\ pc = "ended" /\ pc' = "idle" /\ solutions' = {} /\ par' = [par EXCEPT !.wcss = 0]
        /\ UNCHANGED <<stage, pass, todo, obj, fieldlist, solver, limits, since, files,
                       mine, best, hits, full, limited>>
        /\ scale' = scale + 1 /\ UNCHANGED <<depth, seen>>
    BY <1>5 DEF RunDone
  <2>3. misread \subseteq misread' /\ misread' \subseteq misread \cup fieldlist
    BY <1>1, <2>1, ObsoleteAnswer
  <2>4. par' \in Params /\ par'.wcss = 0
    BY <1>1, <2>2 DEF RunInv, TypeInv, Params
  <2>5. RunInv'
    BY <1>1, <2>2, <2>3, <2>4, IdleStep
  <2>6. JobControl'
    BY <1>1, <2>1, <2>2 DEF JobControl
  <2>7. Grown
    BY <2>2, <2>3 DEF Grown, files, limits
  <2> QED BY <2>2, <2>5, <2>6, <2>7 DEF JobInv
<1>6. CASE RunStep \/ RunHit
  <2>1. /\ epc = "running" /\ (Step \/ Hit) /\ seen \subseteq seen'
        /\ UNCHANGED <<epc, depth, scale>>
    BY <1>6 DEF RunStep, RunHit
  <2>2. RunInv'
    BY <1>1, <2>1, StepInvariant
  <2>3. pc # "idle" /\ pc' # "idle" /\ UNCHANGED <<par, fieldlist>> /\ Grown
    BY <1>1, <2>1, StepFrame
  <2>4. JobControl'
    BY <1>1, <2>1, <2>3 DEF JobControl
  <2> QED BY <2>1, <2>2, <2>3, <2>4 DEF JobInv
<1>7. CASE Around
  <2>1. Environment /\ UNCHANGED <<epc, depth, scale, seen>>
    BY <1>7 DEF Around
  <2>2. RunInv'
    BY <1>1, <2>1, EnvironmentStep
  <2>3. UNCHANGED <<par, control, fieldlist, mine, misread>> /\ Grown
    BY <1>1, <2>1, EnvironmentFrame
  <2>4. JobControl'
    BY <1>1, <2>1, <2>3 DEF JobControl, control
  <2> QED BY <2>1, <2>2, <2>3, <2>4 DEF JobInv
<1>8. CASE UNCHANGED jobVars
  <2>1. UNCHANGED vars /\ UNCHANGED <<epc, depth, scale, seen>>
    BY <1>8 DEF jobVars
  <2>2. RunInv'
    BY <1>1, <2>1, StutterStep
  <2>3. JobControl' /\ Grown
    BY <1>1, <2>1 DEF JobControl, Grown, vars, control, files, limits, history
  <2> QED BY <2>1, <2>2, <2>3 DEF JobInv
<1> QED BY <1>2, <1>3, <1>4, <1>5, <1>6, <1>7, <1>8 DEF JobNext, JobStep, JobOver

-----------------------------------------------------------------------------
(* What the runs of a job have searched. *)

\* A depth range that ends at the last object comes before those that end earlier:
\* an open range after a closed one would be searched to the end of that one only.
OpenRangesFirst ==
  \A a, b \in 1..Len(Depths) : a < b /\ Depths[b][2] = 0 => Depths[a][2] = 0

LEMMA TreatedStays ==
  ASSUME Grown, seen \subseteq seen', NEW f, NEW k, NEW s, Treated(f, k, s)
  PROVE  Treated(f, k, s)'
<1>1. CASE (\A x \in indexlist(Scales[s]) : <<f, k, s, x>> \in seen)
             \/ f \in solved \cup mine \cup misread
  BY <1>1 DEF Grown, Treated
<1>2. CASE cancelFile
  BY <1>2, Zenon DEF Grown, Treated
<1>3. CASE hit_limits # {}
  BY <1>3 DEF Grown, Treated
<1> QED BY <1>1, <1>2, <1>3 DEF Treated

\* The only field of a job is marked when the flag says so.
LEMMA OnlyField ==
  ASSUME RunInv, single_field_solved, NEW f \in fieldlist
  PROVE  f \in mine
<1>1. Cardinality(fieldlist) = 1 /\ mine # {}
  BY DEF RunInv, Flagged
<1>2. IsFiniteSet(fieldlist) /\ mine \subseteq fieldlist
  BY BlindAssumption, FS_Subset DEF RunInv, TypeInv
<1>3. \E x : fieldlist = {x}
  BY <1>1, <1>2, FS_Singleton
<1> QED BY <1>1, <1>2, <1>3

\* A run that has ended has treated the whole depth range it was for, with the
\* indexes of its scale.
LEMMA RunTreats ==
  ASSUME OpenRangesFirst, SearchInv, epc = "running", pc = "ended",
         NEW f \in Readable, NEW k \in Ranged(depth)
  PROVE  Treated(f, k, scale)
<1>1. RunInv /\ JobControl /\ JobRun /\ Noted
  BY DEF SearchInv, JobInv
<1>2. /\ depth \in 1..Len(Depths) /\ par.start = StartObj(Depths[depth])
      /\ par.indexes = Cardinality(indexlist(Scales[scale]))
      /\ EndObj(Depths[depth]) # 0 => par.end = EndObj(Depths[depth])
  BY <1>1, DepthTypes DEF JobControl, JobRun
<1>3. /\ Depths[depth] \in Nat \X Nat /\ NumObj \in Nat
      /\ par.start \in Nat /\ par.end \in Nat
  BY <1>1, <1>2, DepthTypes, Constants DEF RunInv, TypeInv, Params
<1>4. f \in fieldlist \ Unreadable /\ f \in Field
  BY <1>1 DEF Readable, JobControl
<1>5. k \in Nat /\ par.start < k /\ k <= numxy
  <2> DEFINE lo == Depths[depth][1]
             hi == Depths[depth][2]
  <2>1. /\ lo \in Nat /\ hi \in Nat /\ k \in Nat /\ 1 <= k /\ k <= NumObj /\ lo <= k
        /\ hi = 0 \/ k <= hi
    BY <1>3 DEF Ranged
  <2>2. par.start < k
    BY <1>2, <2>1 DEF StartObj
  <2>3. hi = 0 => par.end = 0
    <3> SUFFICES ASSUME hi = 0, par.end # 0 PROVE FALSE
      OBVIOUS
    <3>1. PICK a \in 1..Len(Depths) : a <= depth /\ Depths[a][2] # 0
      BY <1>1 DEF JobRun
    <3>2. a < depth
      BY <1>2, <3>1
    <3> QED BY <1>2, <3>1, <3>2 DEF OpenRangesFirst
  <2>4. hi # 0 => par.end = hi
    BY <1>2 DEF EndObj
  <2>5. k <= numxy
    BY <1>3, <2>1, <2>3, <2>4 DEF numxy
  <2> QED BY <2>1, <2>2, <2>5
<1>6. ASSUME NEW x \in indexlist(Scales[scale]), ~ Treated(f, k, scale)
      PROVE  <<f, k, scale, x>> \in seen
  <2>1. PICK n \in 1..passes : x \in Searching(n)
    <3>1. CASE Parallel
      BY <3>1 DEF Searching, passes
    <3>2. CASE ~ Parallel
      <4> DEFINE list == indexlist(Scales[scale])
                 n == Cardinality({y \in list : y <= x})
      <4>1. n \in 1..Cardinality(list)
        BY <1>6, IndexTurns
      <4>2. passes = Cardinality(list)
        BY <1>2, <3>2 DEF passes
      <4>3. x \in Searching(n)
        BY <1>6, <3>2 DEF Searching
      <4> QED BY <4>1, <4>2, <4>3
    <3> QED BY <3>1, <3>2
  <2>2. Settled(f, n)
    <3>1. stage = "search"
      BY <1>1 DEF RunInv, Control
    <3>2. Settled(f, n) \/ Waiting(f, n)
      BY <1>1, <1>4, <2>1, <3>1 DEF RunInv, Searched
    <3> QED BY <3>2 DEF Waiting, InField
  <2>3. ~ single_field_solved /\ ~ cancelled
    <3>1. single_field_solved => f \in mine
      BY <1>1, <1>4, OnlyField
    <3>2. cancelled => cancelFile
      BY <1>1 DEF RunInv, Flagged
    <3> QED BY <1>6, <3>1, <3>2 DEF Treated
  <2>4. <<f, n>> \in full
    <3>1. limited = {}
      BY <1>1 DEF Noted
    <3> QED BY <1>6, <2>2, <2>3, <3>1 DEF Settled, Treated
  <2>5. n \in Nat
    OBVIOUS
  <2> QED BY <1>1, <1>4, <1>5, <2>1, <2>4, <2>5 DEF Noted
<1> QED BY <1>6 DEF Treated

\* Only StartField and NextObject say that a field is searched to its end, or go to
\* another object.
LEMMA SearchFrame ==
  ASSUME RunInv, Step \/ Hit, ~ StartField, ~ NextObject
  PROVE  /\ UNCHANGED <<full, limited>>
         /\ pc' \in {"timer", "quads", "permuting"} =>
              pc \in {"timer", "quads", "permuting"} /\ UNCHANGED <<obj, pass, f_now>>
<1> USE DEF history
<1>1. CASE VerifyPass \/ SearchPass \/ PassEnd
  BY <1>1 DEF VerifyPass, SearchPass, PassEnd
<1>2. CASE TimerWaits
  BY <1>2 DEF TimerWaits, f_now
<1>3. CASE VerifyEnd
  BY <1>3 DEF VerifyEnd
<1>4. CASE SkipField
  BY <1>4 DEF SkipField
<1>5. CASE VerifyField
  BY <1>5 DEF VerifyField
<1>6. CASE Hit
  BY <1>6 DEF Hit, f_now
<1>7. CASE timer_callback
  BY <1>7 DEF timer_callback, f_now
<1>8. CASE FieldDone
  BY <1>8 DEF FieldDone
<1>9. CASE WriteMatch \/ WriteWcs
  BY <1>9 DEF WriteMatch, WriteWcs
<1> QED BY <1>1, <1>2, <1>3, <1>4, <1>5, <1>6, <1>7, <1>8, <1>9 DEF Step

\* A run notes every object it has tried.
LEMMA NotedStep ==
  ASSUME ~ QuadLimit, SearchInv, RunStep \/ RunHit
  PROVE  Noted'
<1> DEFINE Ended(F, S) ==
             \A f \in Field, n \in Nat, k \in Nat :
               <<f, n>> \in F /\ par.start < k /\ k <= numxy =>
                 \A x \in Searching(n) : <<f, k, scale, x>> \in S
           Begun(g, n, o, S) ==
             \A k \in Nat : par.start < k /\ k <= o =>
               \A x \in Searching(n) : <<g, k, scale, x>> \in S
<1>1. /\ epc = "running" /\ epc' = "running" /\ (Step \/ Hit) /\ seen \subseteq seen'
      /\ scale' = scale /\ RunInv
  BY DEF RunStep, RunHit, SearchInv, JobInv
<1>2. UNCHANGED par
  BY <1>1, StepFrame
<1>3. numxy' = numxy /\ \A n : Searching(n)' = Searching(n)
  BY <1>1, <1>2 DEF numxy, Searching
<1>4. /\ Ended(full, seen) /\ limited = {}
      /\ pc \in {"timer", "quads", "permuting"} => Begun(f_now, pass, obj, seen)
  BY <1>1 DEF SearchInv, Noted
<1>5. /\ par.start \in Nat /\ numxy \in Nat /\ obj \in Nat
      /\ Ended(full, seen')
      /\ pc \in {"timer", "quads", "permuting"} => Begun(f_now, pass, obj, seen')
  BY <1>1, <1>4, Constants DEF RunInv, TypeInv, Params, numxy
<1>6. ASSUME Ended(full', seen'), limited' = {},
             pc' \in {"timer", "quads", "permuting"} => Begun(f_now', pass', obj', seen')
      PROVE  Noted'
  BY <1>1, <1>2, <1>3, <1>6 DEF Noted
<1>7. CASE StartField
  <2>1. UNCHANGED <<limited, pass>> /\ (full' = full \/ par.start >= numxy)
    BY <1>7 DEF StartField
  <2>2. pc' \in {"timer", "quads", "permuting"} => obj' = par.start
    BY <1>7 DEF StartField
  <2>3. Ended(full', seen')
    BY <1>5, <2>1
  <2>4. pc' \in {"timer", "quads", "permuting"} => Begun(f_now', pass', obj', seen')
    BY <1>5, <2>2
  <2> QED BY <1>4, <1>6, <2>1, <2>3, <2>4
<1>8. CASE NextObject
  <2>1. f_now' = f_now /\ pass' = pass /\ limited' = limited /\ pc \in {"quads", "permuting"}
    BY <1>8 DEF NextObject, f_now
  <2>2. CASE quit_now
    <3>1. full' = full /\ pc' = "fieldDone"
      BY <1>8, <2>2 DEF NextObject
    <3> QED BY <1>4, <1>5, <1>6, <2>1, <3>1
  <2>3. CASE ~ quit_now
    <3>1. seen' = seen \cup ({f_now} \X {obj + 1} \X {scale} \X Searching(pass))
      <4>1. RunStep
        BY <1>8 DEF RunHit, RunStep, Hit, NextObject, SearchInv, record_match_callback
      <4> QED BY <1>8, <2>3, <4>1 DEF RunStep
    <3>2. Begun(f_now, pass, obj + 1, seen')
      <4>1. \A x \in Searching(pass) : <<f_now, obj + 1, scale, x>> \in seen'
        BY <3>1
      <4>2. \A k \in Nat : k <= obj + 1 => k <= obj \/ k = obj + 1
        BY <1>5
      <4> QED BY <1>5, <2>1, <4>1, <4>2
    <3>3. \/ full' = full /\ pc' = "timer" /\ obj' = obj + 1
          \/ full' = full \cup {<<f_now, pass>>} /\ pc' = "fieldDone" /\ obj + 1 = numxy
      BY <1>8, <2>3 DEF NextObject
    <3>4. Ended(full', seen')
      BY <1>5, <3>2, <3>3
    <3> QED BY <1>4, <1>6, <2>1, <3>2, <3>3, <3>4
  <2> QED BY <2>2, <2>3
<1>9. CASE ~ StartField /\ ~ NextObject
  <2>1. /\ full' = full /\ limited' = limited
        /\ pc' \in {"timer", "quads", "permuting"} =>
             /\ pc \in {"timer", "quads", "permuting"}
             /\ obj' = obj /\ pass' = pass /\ f_now' = f_now
    BY <1>1, <1>9, SearchFrame
  <2> QED BY <1>4, <1>5, <1>6, <2>1
<1> QED BY <1>7, <1>8, <1>9

LEMMA SearchInvariantStep ==
  ASSUME OpenRangesFirst, ~ QuadLimit, SearchInv, [JobNext]_jobVars
  PROVE  SearchInv'
<1>1. /\ RunInv /\ JobControl /\ JobRun /\ Noted /\ Covered /\ Finished
      /\ JobInv' /\ Grown /\ seen \subseteq seen'
  BY JobInvariantStep DEF SearchInv, JobInv
<1>2. ASSUME NEW f, NEW k, NEW s, Treated(f, k, s) PROVE Treated(f, k, s)'
  BY <1>1, <1>2, TreatedStays
<1>3. ASSUME UNCHANGED <<depth, scale>> PROVE Covered'
  BY <1>1, <1>2, <1>3 DEF Covered
<1>4. CASE JobStart
  <2>1. PICK a \in BOOLEAN : /\ blind_is_run_obsolete(a)
                             /\ epc' = IF a THEN "done" ELSE "next"
    BY <1>4 DEF JobStart
  <2>2. /\ a => \/ cancelFile
                \/ \E f \in fieldlist : fieldlist = {f} /\ f \in solved \cup misread'
    BY <1>1, <2>1, ObsoleteAnswer
  <2>3. UNCHANGED <<par, fieldlist, solved, cancelFile, depth, scale>>
    BY <1>4 DEF JobStart, files
  <2>4. JobRun' /\ Noted'
    BY <1>1, <2>1, <2>3 DEF JobRun, Noted
  <2>5. Finished'
    BY <2>1, <2>2, <2>3 DEF Finished
  <2> QED BY <1>1, <1>3, <2>3, <2>4, <2>5 DEF SearchInv
<1>5. CASE NextRun
  <2>1. /\ epc = "next" /\ depth <= Len(Depths) /\ scale <= Len(Scales)
        /\ UNCHANGED <<depth, scale, seen>>
    BY <1>5 DEF NextRun
  <2>2. CASE hasIndexes(Scales[scale])
    <3>1. StartRun(runParams) /\ epc' = "running"
      BY <1>5, <2>2 DEF NextRun
    <3>2. /\ runParams.start = StartObj(Depths[depth])
          /\ runParams.indexes = Cardinality(indexlist(Scales[scale]))
          /\ runParams.end = IF EndObj(Depths[depth]) # 0 THEN EndObj(Depths[depth])
                                                          ELSE par.end
      BY <1>1, <2>1, RunParamsType
    <3>3. par' = runParams /\ full' = {} /\ limited' = {} /\ pc' \in {"match", "pass"}
      BY <3>1 DEF StartRun
    <3>4. JobRun'
      <4>1. /\ par'.start = StartObj(Depths[depth])
            /\ par'.indexes = Cardinality(indexlist(Scales[scale]))
            /\ EndObj(Depths[depth]) # 0 => par'.end = EndObj(Depths[depth])
        BY <3>2, <3>3
      <4>2. depth \in 1..Len(Depths)
        BY <1>1, <2>1, DepthTypes DEF JobControl
      <4>3. ASSUME par'.end # 0
            PROVE  \E a \in 1..Len(Depths) : a <= depth /\ Depths[a][2] # 0
        <5>1. CASE EndObj(Depths[depth]) # 0
          BY <4>2, <5>1 DEF EndObj
        <5>2. CASE EndObj(Depths[depth]) = 0
          BY <1>1, <3>2, <3>3, <4>3, <5>2 DEF JobRun
        <5> QED BY <5>1, <5>2
      <4> QED BY <2>1, <4>1, <4>3 DEF JobRun
    <3>5. Noted' /\ Finished'
      BY <3>1, <3>3 DEF Noted, Finished
    <3> QED BY <1>1, <1>3, <2>1, <3>4, <3>5 DEF SearchInv
  <2>3. CASE ~ hasIndexes(Scales[scale])
    <3>1. epc' = "aborted" /\ UNCHANGED par
      BY <1>5, <2>3 DEF NextRun, vars
    <3>2. JobRun' /\ Noted' /\ Finished'
      BY <1>1, <2>1, <3>1 DEF JobRun, Noted, Finished
    <3> QED BY <1>1, <1>3, <2>1, <3>2 DEF SearchInv
  <2> QED BY <2>2, <2>3
<1>6. CASE NextDepth
  <2>1. /\ epc = "next" /\ epc' = "next" /\ UNCHANGED par
        /\ depth' = depth + 1 /\ scale' = 1 /\ scale > Len(Scales)
    BY <1>6 DEF NextDepth, vars
  <2>2. depth \in Nat /\ scale \in Nat /\ Len(Scales) \in Nat /\ Len(Scales) >= 1
        /\ Len(Depths) \in Nat
    BY <1>1, DepthTypes DEF JobControl
  <2>3. \A d \in 1..Len(Depths), s \in 1..Len(Scales) :
          d < depth' \/ (d = depth' /\ s < scale') => d < depth \/ (d = depth /\ s < scale)
    BY <2>1, <2>2
  <2>4. Covered'
    BY <1>1, <1>2, <2>3 DEF Covered
  <2>5. JobRun'
    <3>1. ASSUME par.end # 0
          PROVE  \E a \in 1..Len(Depths) : a <= depth + 1 /\ Depths[a][2] # 0
      <4>1. PICK a \in 1..Len(Depths) : a <= depth /\ Depths[a][2] # 0
        BY <1>1, <3>1 DEF JobRun
      <4>2. a <= depth + 1
        BY <2>2, <4>1
      <4> QED BY <4>1, <4>2
    <3> QED BY <2>1, <3>1 DEF JobRun
  <2>6. Noted' /\ Finished'
    BY <2>1 DEF Noted, Finished
  <2> QED BY <1>1, <2>4, <2>5, <2>6 DEF SearchInv
<1>7. CASE JobEnd
  <2>1. /\ depth > Len(Depths) /\ epc' = "done" /\ UNCHANGED <<par, depth, scale, seen>>
    BY <1>7 DEF JobEnd, vars
  <2>2. JobRun' /\ Noted' /\ Finished'
    BY <1>1, <2>1 DEF JobRun, Noted, Finished
  <2> QED BY <1>1, <1>3, <2>1, <2>2 DEF SearchInv
<1>8. CASE RunDone
  <2>1. PICK a \in BOOLEAN : /\ blind_is_run_obsolete(a)
                             /\ epc' = IF a THEN "done" ELSE "next"
    BY <1>8 DEF RunDone
  <2>2. a => \/ cancelFile
             \/ \E f \in fieldlist : fieldlist = {f} /\ f \in solved \cup misread'
    BY <1>1, <2>1, ObsoleteAnswer
  <2>3. /\ epc = "running" /\ pc = "ended" /\ par' = [par EXCEPT !.wcss = 0]
        /\ scale' = scale + 1
        /\ UNCHANGED <<depth, fieldlist, solved, cancelFile>>
    BY <1>8 DEF RunDone, files
  <2>4. par \in Params
    BY <1>1 DEF RunInv, TypeInv
  <2>5. JobRun'
    <3>1. par'.end = par.end
      BY <2>3, <2>4 DEF Params
    <3>2. epc' # "running"
      BY <2>1
    <3> QED BY <1>1, <2>3, <3>1, <3>2 DEF JobRun
  <2>6. Noted'
    BY <2>1 DEF Noted
  <2>7. Finished'
    BY <2>1, <2>2, <2>3 DEF Finished
  <2>8. Covered'
    <3>1. depth \in Nat /\ Len(Depths) \in Nat /\ scale \in Nat /\ Len(Scales) \in Nat
      BY <1>1, DepthTypes DEF JobControl
    <3> SUFFICES ASSUME NEW d \in 1..Len(Depths), NEW s \in 1..Len(Scales),
                        d < depth \/ (d = depth /\ s <= scale),
                        NEW f \in Readable, NEW k \in Ranged(d)
                 PROVE  Treated(f, k, s)'
      BY <2>3, <3>1 DEF Covered
    <3>2. CASE d = depth /\ s = scale
      BY <1>2, <2>3, <3>2, RunTreats
    <3>3. CASE d < depth \/ (d = depth /\ s < scale)
      BY <1>1, <1>2, <3>3 DEF Covered
    <3> QED BY <3>1, <3>2, <3>3
  <2> QED BY <1>1, <2>5, <2>6, <2>7, <2>8 DEF SearchInv
<1>9. CASE RunStep \/ RunHit
  <2>1. /\ epc = "running" /\ (Step \/ Hit) /\ UNCHANGED <<epc, depth, scale>>
    BY <1>9 DEF RunStep, RunHit
  <2>2. UNCHANGED <<par, fieldlist>>
    BY <1>1, <2>1, StepFrame
  <2>3. Noted'
    BY <1>9, NotedStep
  <2>4. JobRun' /\ Finished'
    BY <1>1, <2>1, <2>2 DEF JobRun, Finished
  <2> QED BY <1>1, <1>3, <2>1, <2>3, <2>4 DEF SearchInv
<1>10. CASE Around \/ UNCHANGED jobVars
  <2>1. /\ UNCHANGED <<epc, depth, scale, seen>>
        /\ UNCHANGED <<par, control, fieldlist, full, limited>>
    <3>1. CASE Around
      BY <1>1, <3>1, EnvironmentFrame DEF Around
    <3>2. CASE UNCHANGED jobVars
      BY <3>2 DEF jobVars, vars, control, history
    <3> QED BY <1>10, <3>1, <3>2
  <2>2. f_now' = f_now /\ numxy' = numxy /\ \A n : Searching(n)' = Searching(n)
    BY <2>1 DEF control, f_now, numxy, Searching
  <2>3. Noted' /\ JobRun'
    BY <1>1, <2>1, <2>2 DEF Noted, JobRun, control
  <2>4. Finished'
    <3>1. cancelFile => cancelFile'
      BY <1>1 DEF Grown
    <3>2. solved \cup misread \subseteq solved' \cup misread'
      BY <1>1 DEF Grown
    <3> QED BY <1>1, <2>1, <3>1, <3>2 DEF Finished
  <2> QED BY <1>1, <1>3, <2>1, <2>3, <2>4 DEF SearchInv
<1> QED BY <1>4, <1>5, <1>6, <1>7, <1>8, <1>9, <1>10 DEF JobNext, JobStep, JobOver

-----------------------------------------------------------------------------
(* The theorems. *)

\* The counters, flags, lists and files of a run keep their types, whatever
\* fields, limits and depth range the job names.
THEOREM RunTypeCorrect == Spec => []TypeInv
<1>1. IInv => TypeInv
  BY DEF IInv, RunInv
<1> QED BY <1>1, Invariant, PTL

\* blind_run and solve_fields mark no field without keeping a solution that
\* solves it: neither the verify stage nor the writing of the files drops it.
THEOREM MarkedHasSolution == Spec => []SolvedHasSolution
<1>1. IInv => SolvedHasSolution
  BY DEF IInv, FirstInv
<1> QED BY <1>1, Invariant, PTL

\* write_solutions leaves the best solution found for each field in its WCS file
\* and in the match file, when the run ends in the normal way.
THEOREM BestIsWritten == Spec => []BestWritten
<1>1. IInv => BestWritten
  BY DEF IInv, RunInv
<1> QED BY <1>1, Invariant, PTL

\* solver_handle_hit asks for nsolves solving hits on the same field before the
\* field counts as solved, in a job without WCS estimates.
THEOREM MarkNeedsNSolves == Spec => []SolvedNeedsNSolves
<1>1. IInv => SolvedNeedsNSolves
  BY DEF IInv, FirstInv
<1> QED BY <1>1, Invariant, PTL

\* check_time_limits sets the flag of a limit, on CPU or wall-clock time, only when
\* the run lasted longer than the limit, in a job without WCS estimates: also where
\* a pass starts its clock with time() and compares it with timenow().
THEOREM LimitNotEarly == Spec => []SearchLimitNotEarly
<1>1. IInv => SearchLimitNotEarly
  BY DEF IInv, FirstInv
<1> QED BY <1>1, Invariant, PTL

\* blind_run ends with each field searched in each pass to the end of its range, or
\* to the most quads or matches it may have, unless it is solved, unreadable, or a
\* time limit or the cancel file ended the job.
THEOREM RunIsComplete == Spec => []RunComplete
<1>1. IInv => RunComplete
  <2> SUFFICES ASSUME IInv, pc = "ended", NEW f \in fieldlist \ Unreadable,
                      NEW n \in 1..passes
               PROVE  Settled(f, n) /\ (single_field_solved => f \in mine)
    BY DEF RunComplete, Settled
  <2>1. stage = "search"
    BY DEF IInv, RunInv, Control
  <2>2. Settled(f, n) \/ Waiting(f, n)
    BY <2>1 DEF IInv, RunInv, Searched
  <2>3. single_field_solved => f \in mine
    BY OnlyField DEF IInv
  <2> QED BY <2>2, <2>3 DEF Waiting, InField
<1> QED BY <1>1, Invariant, PTL

\* A job for one field that solved it ends with the solution in the WCS file and in
\* the match file: once the field is solved, the runs of blind_run that are left go
\* straight to the writing, and write nothing.
THEOREM JobOutputIsKept == JobSpec => []JobOutputKept
<1>1. JobInit => JobInv
  BY JobInitInvariant DEF SearchInv
<1>2. JobInv /\ [JobNext]_jobVars => JobInv'
  BY JobInvariantStep
<1>3. JobInv => JobOutputKept
  <2> SUFFICES ASSUME JobInv, epc = "done", Cardinality(fieldlist) = 1, NEW f \in mine
               PROVE  /\ wcsFile[f] = Solve
                      /\ [field |-> f, odds |-> Solve] \in matchFile
    BY DEF JobOutputKept
  <2>1. pc = "idle"
    BY DEF JobInv, JobControl
  <2> QED BY <2>1 DEF JobInv, RunInv, Output, Running
<1> QED BY <1>1, <1>2, <1>3, PTL DEF JobSpec

\* engine_run_job is done only when every object of its depth ranges was tried in
\* every field that is readable and not solved, with each index in range that each
\* of its scales calls for, or the job was cancelled or ran out of time: the flags,
\* the range and the indexes one run leaves to the next never make it skip objects.
\* The engine does not limit the quads, and an open range must not follow a closed
\* one: sp->endobj would stay that of the closed one.
THEOREM JobIsComplete ==
  ASSUME OpenRangesFirst, ~ QuadLimit
  PROVE  JobSpec => []JobComplete
<1>1. JobInit => SearchInv
  BY JobInitInvariant
<1>2. SearchInv /\ [JobNext]_jobVars => SearchInv'
  BY SearchInvariantStep
<1>3. SearchInv => JobComplete
  <2> SUFFICES ASSUME SearchInv, epc = "done", NEW f \in Readable,
                      NEW k \in (Asked \cap 1..NumObj) \ {0}, NEW s \in DOMAIN Scales
               PROVE  Treated(f, k, s)
    BY DEF JobComplete, Treated, Readable
  <2>1. CASE depth > Len(Depths)
    <3>1. PICK d \in 1..Len(Depths) : k \in Ranged(d)
      <4>1. DOMAIN Depths = 1..Len(Depths)
        BY EngineAssumption
      <4>2. PICK r \in Range(Depths) : k \in r[1]..(IF r[2] = 0 THEN NumObj ELSE r[2])
        BY DEF Asked
      <4>3. PICK d \in 1..Len(Depths) : r = Depths[d]
        BY <4>1, <4>2 DEF Range
      <4> QED BY <4>2, <4>3 DEF Ranged
    <3>2. d < depth
      BY <2>1, DepthTypes DEF SearchInv, JobInv, JobControl
    <3>3. DOMAIN Scales = 1..Len(Scales)
      BY EngineAssumption
    <3> QED BY <3>1, <3>2, <3>3 DEF SearchInv, Covered
  <2>2. CASE cancelFile
    BY <2>2 DEF Treated
  <2>3. CASE \E g \in fieldlist : fieldlist = {g} /\ g \in solved \cup misread
    <3>1. f \in fieldlist
      BY DEF SearchInv, JobInv, JobControl, Readable
    <3> QED BY <2>3, <3>1 DEF Treated
  <2> QED BY <2>1, <2>2, <2>3 DEF SearchInv, Finished
<1> QED BY <1>1, <1>2, <1>3, PTL DEF JobSpec

=============================================================================
