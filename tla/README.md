# Verification of astrometry.net's blind solver

The repository is astrometry.net: it finds out where on the sky an image was
taken by matching small groups of its stars ("quads") with prebuilt indexes.
This directory has TLA+ models of the program's control, TLC runs that check
them on small instances, and TLAPS proofs about most of them.

## The system

### Components

| component | state | operations | models |
| --- | --- | --- | --- |
| solved file (`blind/solvedfile.c`) | one byte per field, in a file any number of processes write without a lock | `solvedfile_get`, `_set`, `_setsize`, `_set_array`, `_getall`, `_getall_solved` | `SolvedBytes`, `SolvedFile`, `SolvedLists`, `SolvedSet` |
| solved server (`blind/solvedserver.c`, `solvedclient.c`) | list of clients, one socket each; a connection in each client | `get`, `set`, `getall`, connect, stop, restart | `SolvedServer` |
| engine (`blind/engine.c`) | a job: depth ranges, scale ranges, indexes | `engine_run_job`: one `blind_run` for each depth and scale | `EngineJob` |
| blind run (`blind/blind.c`) | fields, solutions, limits, cancel file, outputs | `blind_run`, `solve_fields`, the callbacks of the solver, `write_solutions` | `BlindRun` |
| solver (`blind/solver.c`) | pairs of stars with the stars in their circle, loops over stars and indexes, the order in which a quad's stars are tried | `solver_run`, `add_stars`, `try_all_codes`, `try_permutations` | `SolverQuads`, `SolverCodes` |
| verification (`blind/verify.c`) | two arrays of star numbers filtered in place, the matches, running log-odds | `verify_hit`, `real_verify_star_lists`, `fixup_theta` | `Verify` |
| match permutations (`blind/blind.c`, `util/permutedsort.c`) | the reference stars of a result, and the matches that index them | `sort_rdls` | `Verify` |
| web submissions (`net/process_submissions.py`) | database of submissions, images, jobs and queue; two pools of processes | `main`, `dosub`, `dojob`, retries, start and kill | `Pipeline` |
| tweak (`tweak2.c`), geometry, source extraction, kd-trees | numbers | | no: floating point |
| job preparation (`solve-field.c`, `augment-xylist.c`) | temporary files, a job header | options to header | no: the header's depths and scales are constants of `EngineJob` |
| index construction (`build-index.c`, `hpquads.c`, ...) | files | offline tools | no |
| containers, files (`util/`, `libkd/`) | | | no |

`PROJECT.json` lists all of them, with the vendored and generated parts.

### How they interact

A submission to the web site becomes Images, UserImages and Jobs
(`process_submissions.py`); a job, or a call of `solve-field`, is a file that
`engine_run_job` reads. It calls `blind_run` once for every pair of a depth range
(which objects of the field, by brightness) and a scale range, with the indexes
that suit the scale. `blind_run` first checks the WCS estimates that came with
the job, then goes through the fields with each index in turn, or with all at
once. For each field `solver_run` takes one object after the other, builds the
quads whose newest star it is and looks each up in every order its stars may
have in an index. A match of a quad proposes a WCS, `verify_hit` gives it
log-odds and a list of matched stars, and if those are good it calls back into
`blind.c` (`record_match_callback`); a timer does so too (`timer_callback`). The
callbacks set `quit_now`, which the loops of the solver look at. A solved field
is marked in the solved file, directly or through the solved server, and
processes that work on the same fields leave it alone from then on.

### What is hard

* **Shared files without locks.** Several solvers extend and mark one solved
  file; each call is a sequence of system calls.
* **Callbacks that set flags** (`quit_now`, `cancelled`, `hit_*`,
  `single_field_solved`), each read and reset at other places than it is set;
  one `blind_t` and one `solver_t` are used again for the next field, index,
  depth and scale.
* **Failure**: writes that fail, processes that are killed in the middle of a
  call, a server that is restarted under its clients, database errors between
  the saves of one submission.
* **A database as shared memory**: look-ups and inserts of several workers are
  separate transactions, and deletions cascade to rows that others rely on.
* **Time**: limits on a pass and on the whole run, clocks that are set in one
  function, with another zero of the wall clock, and compared in another.
* **Handlers that fail**: the handler of a database error asks the same database,
  and what it raises nobody catches.
* **Ranges**: depths change from 1-based and inclusive to 0-based and half open,
  with 0 for "no limit"; a search may start in the middle of a field, as if
  earlier searches had prepared its data.
* **Renumberings**: a matched star is known by its place in the tree, in
  `refperm`, among the stars in the image and in the result, in turn.
* **Incremental sums and pruned searches**: log-odds that are corrected when a
  match is taken over; recursions that place a star and take it back.

What makes each part correct: the solved file is a set that only grows, and an
acknowledged field is in it (`SolvedSet`); a field is marked only if a solution
for it reaches the output; nothing that happens to one field, index or depth
cuts another one short; every quad that a job asks for is tried, once, in every
order an index may hold; a match names the stars that were found near each
other; a submission that is finished has its images, and what is begun is being
worked on or is known to have failed; jobs end. The hazards are listed in `PROJECT.json`, at their lines.

## The modules

| module | extends | content |
| --- | --- | --- |
| `SolvedBytes` | | contents of a solved file; the reading half of `solvedfile.c` |
| `SolvedFile` | `SolvedBytes` | writers of a solved file, one action per system call |
| `SolvedSet` | | abstract: a set that only grows, acknowledgements of its members |
| `SolvedLists` | `SolvedFile` | the listings of the file, at any moment, beside what `solvedfile_get` says |
| `SolvedServer` | `SolvedBytes`, instance of `SolvedFile` | server and clients |
| `BlindRun` | | one `blind_run` and its environment |
| `EngineJob` | `BlindRun` | the runs of one job |
| `SolverQuads` | | the quads `solver_run` builds |
| `SolverCodes` | | the orders in which a quad is looked up |
| `Verify` | | `verify_hit`, and `sort_rdls` on its result |
| `Pipeline` | | `process_submissions.py`, its workers and its database |
| `SolvedFileProofs`, `SolvedServerProofs`, `BlindRunProofs`, `SolverQuadsProofs`, `SolverCodesProofs`, `VerifyProofs`, `PipelineProofs` | the module (`SolvedLists` and `EngineJob` for the first and third), TLAPS | theorems |
| `DataLemmas` | `Functions`, TLAPS | lemmas about numbers, finite sets and sums that the proofs share |
| `MC...` | | values of the constants for TLC |

History variables record what the properties speak of and guard nothing; their
declarations say "history". Operators with a suffix (`StartField_KeepsQuit`) are
mutants: what the definition might look like with a plausible bug, one for each
property.

### SolvedFile, SolvedLists, SolvedServer

The bytes written are 0 and 1, so a file is its size and the set `marked` of
fields whose byte is 1. A writer is a process, in at most one call: `Open`
(creates the file), `SeekEnd` (`lseek(f, 0, SEEK_END)`), one `WritePad` per zero
byte, one `WriteMark` per field, `Finish`. `PadFails`, `MarkFails` and `Crash`
end a call at any of these. `acked` is the set of fields whose call returned 0.
Both `SolvedFile` and `SolvedServer` implement `SolvedSet` by the mapping of
`solved` to `marked`, and of `acked` to the fields acknowledged or confirmed.
`SolvedLists` asks for the listings in every state of the file, with every range
and number of fields.

In `SolvedServer` the actions of the loop in `main` are `Select`, one
`HandleRead` or `HandleSet` ... `HandleSetDone` per ready client, `Accept`; the
writer of its `SolvedFile` is the server. A client is in one call: connect,
send, wait. `Stop` is a kill or an interrupt at any point, `Start` a new server
on the same file. The file the first server finds has one of the sizes
`InitSizes`, or is missing, with any marks.

### BlindRun, EngineJob

`pc` is the place in `blind_run`, `solve_fields` or `solver_run`; `stage` tells
the check of WCS estimates from the search; `pass` counts indexes. The quads
tried with one object are abstracted to the matches they may give (`Hit`), each
with log-odds that are enough to keep or enough to solve. Once a match sets
`quit_now`, `try_permutations` still goes through other permutations of the same
quad (`pc = "permuting"`), because only its innermost loop looks at the flag
(`SolverCodes` has that loop, `SolverQuads` the quads). `OtherSolves`, `CreateCancelFile` and `Tick` are the environment.

There are four limits, on CPU and on wall-clock time, of a pass and of the run.
`since` is what `check_time_limits` compares with each: now minus the start that
the code recorded. The starts differ. `InitJob` lets the time since `cpu_start` be
0 or past the limit, because the CPU clock of a process that has run jobs before does not
start at 0 while `cpu_start` does; the time since `time_start` is endless then.
`SearchPass` sets both starts, the second with `time()`, whose zero is thirty years
before that of `timenow()`, so the difference is below zero for as long as a pass
lasts (`Skewed`).
`full` are the fields and passes that were searched to the last object, `limited`
those that `maxquads` or `maxmatches` ended before.

`EngineJob` runs `BlindRun` once for each depth and scale, with the parameters
`engine_run_job` computes; what the runs share stays in the variables of
`BlindRun` from one run to the next. Of the indexes that suit the scale only those
within range of the job's position (`InRange`) are used, so a run may have none.
`seen` records what was searched, with which index and for which scale.

### SolverQuads

For each pair A < B the code keeps a `pquad` with `scale_ok`, the array `inbox`
of stars in the circle of the pair, and `ninbox`, how far that array is filled
in. `Prime` makes the pairs before `startobj`; then for each new star `NewStar`
makes the pairs that have it as B, `TryDiagonal` tries them with each index, and
`TryInside` puts the star into the inbox of every older pair and tries the quads
that have it inside. The geometry (which pairs suit which index, which stars lie
in which circle) is a constant. `add_stars` adds stars in increasing order, so a
quad is a pair and a set; that its recursion builds no set twice is part of the
abstraction. A match or a limit may end the search after any quad.

### SolverCodes

`try_all_codes` looks at both parities and both directions of the diagonal;
`try_permutations` fills the slots of the stars inside one by one. The recursion
is a depth `slot`, the loop variable of each call `idx[slot]`, and the set
`placed`; `Skip`, `Recurse`, `Search` and `Return` are the turns of its loop,
`Returned` the next direction or parity. Codes are integers in units in which
the diagonal is 2 × `Half` long, `Margin` is `cxdx_margin`. What an index may
store (`quad_obeys_invariants`, from the code that builds indexes) is the
reference that `MatchingOrderTried` compares the pruning with. `Search` may find
a match only when one is possible (`MayMatch`); the innermost loop then ends, the
outer ones go on.

### Verify

`refperm` and `testperm` are the arrays of the code. A filter (`RefTurn`,
`TestTurn`, one turn of its loop each) moves what passes to the front of the same
array and puts the rest by in `badguys`; its end copies those in behind
(`Rejoin`). Filters are: the quad's stars, deduplication, and the radius of
relevance; `verify_uniformize_field` reorders. Which stars lie inside the image,
survive deduplication or are relevant is a choice among constants. Then each test
star in turn is a `Distractor`, a `NewMatch` or in `Conflict` with an earlier
match, whose place it takes if `switchfg` says so. Log-odds are integers, their
zero the log of the background density, so a star that is neither counts 0 plus
the distractor term `LogD`, the code's `logd_at`, assumed to be concave as a
logarithm is. `AcceptHit` is the end of `verify_hit`: the reference arrays are
reordered by `refperm`, the matches renumbered by its inverse (`fixup_theta`), and
those of the quad put back. `sort_rdls` is the sort of the result in `blind.c`.

### Pipeline

The main process: `Look` reads the database, `ScanSub` and `ScanJob` take
finished results out of the lists (while iterating over them: the next one is
passed over), `QueueSub` and `QueueJob` save rows and hand the work to a pool, or
do it in place when there is no pool (`inSub`, `inJob`). A worker of a submission
goes through its files: `Lookup` of an Image, `CreateImage` or, if there are
several, `FetchImages` of them and one `DeleteDuplicate` after the other, with the
cascade to UserImages and Jobs, then `create_user_image`.

Each of these may fail (`SubFails`, `SubDatabaseError`), and so may what handles the
failure. The handler of a database error counts a retry and begins again, or gives
up, or raises (`Raise`): always so if the name `django` is not bound, which only the
site's own settings could do (`DjangoBound`), and at any time because it asks the
database that has just failed. Any other exception is saved as the submission's
error, or that save raises. A job's exception is caught and saved by `try_dojob`
(`CatchJob`), or leaves the worker (`RaiseJob`): the save fails, the row is gone, or
the job runs in the main process, which calls `dojob` itself. A worker that raised
is `"raised"`: if it has a pool, the main loop reads that in its result and finishes
the row of the queue without success; if not, the main process ends with it
(`InlineSubRaised`, `InlineJobRaised`).

`Kill` ends the process group, `Start` resets what was begun. `lost` records that
the main process died of a row that is gone or doubled.

## The runs

| run | instance | shows |
| --- | --- | --- |
| `file_sole` | one writer, 4 fields, any initial file | no acknowledged mark is lost, no mark cleared, `SolvedSet` is implemented, and the listings agree with `solvedfile_get` in the middle of a write too |
| `file_race` | two writers, 2 fields, no file | **violated**: padding clears a mark |
| `server_two` | two clients, 2 fields, no file or one of one byte | confirmed fields survive kills, answers are fresh and belong to their call, calls end |
| `blind_run` | three fields (one unreadable) of two objects, list with invalid numbers, a search of both objects, or from the second on with two indexes or a WCS estimate, two solving matches required, all four time limits and a limit on quads or matches | no field is cut short, marked or dropped because of another, no limit is reached early in a search |
| `job_run` | two depths, two scales (one that no index fits), three indexes of which one is out of range, a WCS estimate, a CPU limit on a pass, read errors | every object is tried with every index, the output of the run that solved stays, the job ends |
| `quads_range` | five objects, every depth range, an index of quads and one of triangles | each quad is tried once, in its range; inboxes are filled in when read |
| `codes` | a quad with three stars inside, every code of a grid, every promise of the index, every parity | the orders that pass the checks are searched, once each, and with them all that an index could hold |
| `hit` | four reference and six test stars, a triangle or no quad, every filter | the arrays stay permutations, matches are one to one and name the right stars, the log-odds are those of the matches |
| `verify_odds` | the same | **violated**: a match taken over leaves the log-odds too high |
| `sort_theta` | the same, sorted | **violated**: the matches name other stars |
| `pipeline` | a file (of which two Images may exist), with or without pools, one retry, two starts | what finishes has its images, nothing is stranded, copies are bounded, everything is processed but what a worker raised on |
| `pipeline_shared` | three submissions of one file | **violated**: a finished submission loses its image |

### Bounds

* Fields, 2 to 4: the properties of the solved file relate two fields (a mark
  and the pad of another) and the end of the file; of a run, one field and the
  next ones. `blind_run` has a field that cannot be read as the third.
* Objects: two in a run, so that a search is at its first, between two and at its
  last object; five in `SolverQuads`, so that a quad of four stars can be met as
  B, inside and after priming.
* Stars inside a quad: three in `SolverCodes`, the least with a slot that is
  neither first nor last; the grid has coordinates on both sides of 1/2, beyond
  both ends, and at distances below, at and above the margin.
* Stars in `Verify`: three of the quad, one of them outside the image, and three
  to match, so that a match can be taken over past a distractor; four reference
  stars, one that may be outside.
* Indexes, depths, scales: two of each, the next one after a change of state, and
  in a job an index that is out of range, alone in one scale: a run with no index.
* `Pipeline`: one submission with a file shows a retry, a kill and a leftover
  against its own traces; the retry gives it a second job, so that there are two
  results in the list that is changed while it is read. Three submissions of one
  file are enough for a deletion that takes the image of a finished submission.
  (The theorems are for any number of submissions, with files in common or not.)
* Clocks stop at `Cap`, one above the highest limit: what is compared is only
  whether a limit is exceeded. `MaxSolves`: at most one solving match beyond
  `nsolves` is counted.
* Deadlock is checked in every run.

### Fairness

`SolvedServer`: the server's loop and a client inside a call keep running;
nothing says that a stopped server is started again, and `CallEnds` holds all
the same, because its clients see the broken connection. `EngineJob`: the
program keeps running (`WF` of `JobStep`); hits are not fair, and there are only
so many quads with one object, so the step that leaves the object is part of
`JobStep`. `Pipeline`: the main process and some worker keep running; nothing
says that the process is started again, so `AllProcessed` speaks of the runs in
which it is up from some time on. Nothing is assumed of the environment: time may
stand still, no one needs to cancel or submit.

## What is proved

All theorems are for every value of the constants that satisfies the modules'
assumptions; those say what the code takes for granted and TLC evaluates them in
the runs.

`SolvedFileProofs`, for every set of writers, number of fields and initial size:
`TypeCorrect`; and under `NoConcurrentPadding` (there is one writer, or the file
has all its bytes from the start) `AckedStaysMarked`, `MarksOnlySet` and
`FileImplementsSet`. The condition is needed, as `file_race` shows. The
invariants are not inductive alone: a `WritePad` clears the byte it writes, so
one must know that it writes at the end of the file (`PadsAtEnd`), that no mark
lies beyond the end (`MarksInFile`), and, for the acknowledgement, that a call
has marked the fields it has done (`DoneMarked`). `ListingsSound` and
`ListingsComplete`, for every query and without that condition, are about
`SolvedLists`: they need of the file only that its marks are inside it, and
rest on what "the first `maxfields` of a set" is: a set of that size if it is
cut, whose members come before everything that is left out.

`SolvedServerProofs`, for every set of clients: `ServerTypeCorrect`,
`ConfirmedStaysMarked`, `AnswersAreFresh`, `RepliesMatchCalls`,
`ServerImplementsSet`. The server is the only writer of its file, so the proof
takes the invariant of `SolvedFileProofs` by `INSTANCE`, with the server as the
set of writers, and shows that every step of the server that touches the file is
one of that module. What it adds: a request waiting at the server is that of the
call in progress (`LineMatches`), the server writes the field that it was asked
for (`Writing`), an "ok" is under way only for an acknowledged field
(`SetAcked`), and what had been confirmed when a call began still is
(`BeforeConfirmed`), so that an answer made in the meantime is fresh.

`BlindRunProofs`, for every list of fields, number of objects and indexes, limit
and kind of run: `RunTypeCorrect`, `MarkedHasSolution`, `BestIsWritten`,
`MarkNeedsNSolves`, `LimitNotEarly`, `RunIsComplete`. The parts of the invariant:
`best_match_solves` and `quit_now` have their reason in this field (`Counted`);
until they are written the solutions hold the best of each field, which the two
stages that drop solutions keep (`Kept`, `BestStays`); without estimates each
clock of a pass shows no more than that of the run (`ClocksSet`), the wall clock
because it shows less than nothing; and for each field and pass either there is a
reason why nothing more is to be done, or the loops have not come to it yet
(`Searched`), which at the end leaves only the reasons.

The same module has `JobOutputIsKept` and `JobIsComplete`, for every list of depth
ranges, scales and indexes. The invariant is in two layers: `RunInv` is what holds
in every run of a job, `FirstInv` what holds only as long as there was one (a run
zeroes its clock and its history, but not `hit_limit` or `mine`); each step lemma
proves both. What carries over between runs is in `Output`: the mark of the only
field has its solution in the list, or in the files while the list is empty and
the run goes straight to the writing, because the estimates to verify are gone and
`single_field_solved` stays. For the second theorem, an object is `Treated` for
good (`Grown`, `TreatedStays`); what a run has searched to the end is seen
(`Noted`), the run is that of the depth and scale of the job, with the indexes in
range that the scale calls for, if any (`JobRun`), and the ranges that had a run are
treated (`Covered`, `RunTreats`). It has two hypotheses. `OpenRangesFirst`: no open
depth range after a closed one, since the code would then search to the end of the
closed one (`engine.c:481`). `~ QuadLimit`: no limit on quads or matches, which nothing
in the engine sets. A job in whose range no index lies has nothing to search.

`SolverQuadsProofs`, for every number of objects and indexes, every geometry and
depth range: `QuadsTypeCorrect`, `QuadsTriedOnce`, `QuadsTriedInRange`,
`QuadsTriedAll`, `QuadsInboxCurrent`. The invariant says exactly what has been
done at each point of the loops: the pairs made are those of the stars taken
(`PairsMade`), an inbox has the stars of the circle up to the point the loops
have reached (`InboxRight`), and what has been tried are the valid quads that
are complete in the range, and those of the new star that the loops have passed
(`TriedExactly`). `DiagonalIs` and `InsideIs` say which quads one turn of each
loop tries.

`SolverCodesProofs`, for every number of stars inside, codes and margins:
`CodesTypeCorrect`, `CodesTriedExactly`, `CodesMatchingTried`. `placed` is the set of the stars in the
slots below (`PlacedRight`), and what has been searched are the allowed orders
that come before the loop variables in lexicographic order (`Before`), with those
of the directions and parities gone through (`Earlier`). For the last theorem an
order that an index could hold is shown to pass the check of every slot
(`MatchAllowed`): the stored coordinates are sorted, so the mean of the first ones
is no larger than that of all (`MeanOfFirst`), and two coordinates that are off by
at most `codetol` together are apart by at most the margin (`TwoSquares`,
`MarginEnough`).

`VerifyProofs`, for every number of stars, quad, geometry and log-odds:
`TypeCorrect`, `PermutationsAreKept`, `MatchesOneToOne`, `ThetaNamesRight`,
`OddsAreExact`. In the
middle of a filter the array is not a permutation; the array with the part put by
copied in behind is, at every turn. The stars of the quad are out of the way once
filtered (`OffQuad`), and matches, `rmatches` and the history of what was near
agree (`Linked`). For the log-odds, the sum over the stars so far is compared with
the running value at every star (`Scored`): a star that is added changes one term,
a match taken over changes the two stars concerned and, through the number of
matches, the distractors between them. There the code subtracts too little, and
that the result is never too low is the concavity of `LogD` (`LosesMatch`).

`DataLemmas` has what these proofs need of data. The sums of the community module
`Functions` are folds, that is functions recursive over sets; the induction
theorems of the library take an operator and cannot be used here, so each fact is
proved from a least counterexample: a set of natural numbers that is not empty has
a least element (`LeastNat`), hence induction over the subsets of a finite set
(`SetInduction`), hence that the fold exists and takes its elements in any order
(`FoldExists`, `SumOut`), and the rules of sums.

`PipelineProofs`, for every number of submissions, contents, pools, leftover
Images, retries and starts: `PipelineTypeCorrect` and `NoneStranded` without a
condition, and `MainGoesOn` too; `OneCopyPerAttempt` if no submission has a file
twice (`NoRepeat`); `FinishedIsComplete` if no two submissions have a file in common
(`Apart`), a condition that `pipeline_shared` shows to be needed. The invariant
says where each submission and each job is (`SubsPlaced`, `JobsPlaced`): a row
looks begun exactly while a worker has it, or has raised on it. A UserImage that a
list or a worker still names is there or gone for ever (`Past`), which rests on the
numbers of Images not being used again (`ImagesNumbered`). So whatever the main
process misses is gone with its image (`RowLost`): a row of a job it waits for is
there as long as the UserImage is (`RowsKept`). For the copies, a submission is
one below its bound until the present attempt has been through the file or has
raised (`CopiesCounted`). With `Apart`, an Image that anything refers to is the only
one of its file (`OnlyImage`), which each worker knows of its own file (`Knows`), so
that the clean-up deletes nothing that is referred to.

Only model-checked: all liveness (`CallEnds`, `JobEnds`, `AllProcessed`), which
the prover cannot do. Every invariant and action property of the passing runs is a
theorem. Only proved: `MainSurvives` (`MainGoesOn`), for which submissions must share
a file, and what the runs' bounds leave out, such as sites whose settings do not bind
the name `django`.

## Findings

* `solvedfile_set_array` can clear marks although its header says it only sets
  (`file_race`).
* When a match is taken over, the correction of the log-odds for the distractors
  in between starts one match too high (`verify_odds`). `OddsExact` says what
  remains true: exact as long as that does not happen, never too low.
* `sort_rdls` renumbers the matches with the permutation where its inverse is
  wanted (`sort_theta`). `ThetaNames` says when it does no harm.
* Two workers can create an Image each of one file, and the clean-up deletes the
  UserImage and Job of a finished submission (`pipeline_shared`).

Met while modelling, and in the models as the code has them:

* `solvedfile_getall` returns nothing for a range that begins past the end of the
  file (`solvedfile.c:128`), and passes over the fields past the end when all
  those inside are solved and there is no limit (`solvedfile.c:155`);
  `ListsComplete` excepts both.
* The limit on the wall-clock time of a pass never ends a search, because its start
  is taken from `time()` (`blind.c:493`) and the time compared with it from
  `timenow()`, thirty years behind (`blind.c:317`, `tic.c:41`); during the check of
  an estimate it is exceeded at once, the start being 0.
* An open-ended depth range keeps the end of the range before it (`engine.c:481`). A
  job header cannot hold such a range (`engine.c:790`), the `depths` line of the
  configuration can.
* The handler of a database error uses a name that no module of the repository
  binds (`process_submissions.py:371`), so that it raises and nothing is retried
  unless the site's settings bind it (`DjangoBound`).
* `is_field_solved` takes a read error for "solved" (`blind.c:1071`); `misread`
  records it and the properties except it.
* An estimate is verified before the clocks of the pass are set, so its callback
  may hit the limit at once, and the flag then ends every later search
  (`blind.c:766`); the CPU limit is spent once per index (`blind.c:488`).
* A submission whose worker raised stays begun until the process is started again;
  only its row of the queue says that it failed, and nothing reads that
  (`NothingStranded` and `AllProcessed` except it).
* Without pools an exception of a job, or of a handler, ends the main process
  (`process_submissions.py:733`, `:749`).
* `assert(0)` in the choice of indexes is reachable for a scale in a gap between
  the sizes of the indexes (`engine.c:512`).

Met while reading, in code that no module has: option `s` of the engine falls
through to `C` (`engine-main.c:154`); `compare_uchars_desc` compares ints
(`permutedsort.c`); the loop that applies the distortion takes `theta[i]` for `i`
below `nbest`, though `theta` is in the order of the field and `nbest` counts
stars in the order they were tried (`solver.c:1415`).

## Not modelled, and why

Floating-point computations (tweak, geometry, source extraction, kd-trees, the
values inside verification) are abstracted to the outcomes the control tells
apart. File formats, plotting, catalogues, the Django site, index construction
and vendored libraries are I/O, data or sequential tools; by lines they are most
of the repository. `solvedfile_set_file` (one offline tool), malformed requests
to the server, the solved-server branch of `is_field_solved` (a call that
`SolvedServer` has), the calibration and tags a solved job saves, and the
experiment `verify2.c` are left out of the modules that come nearest to them.

## What is left

1. `DepthRanges`: `parse_depth_string`, the job header and the engine's
   conversion, from the option to the objects searched.
2. Block lists (`bl.c`) and trees (`bt.c`) as refinements of sequences and sets;
   `dfind.c`'s labels beside connected components; `resort-xylist`.
