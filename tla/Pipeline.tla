------------------------------ MODULE Pipeline ------------------------------
(***************************************************************************)
(* net/process_submissions.py: the process that turns the submissions of   *)
(* the web site into jobs for the solver.  A main loop looks in the        *)
(* database for new submissions and for user images without a job, and     *)
(* gives them to two pools of worker processes, or does them itself.  A    *)
(* worker makes an Image of each file of a submission, unless one is there,*)
(* and a UserImage; or it runs the solver for a job.  All of them share    *)
(* the database, and commit each save on its own.                          *)
(*                                                                         *)
(* The process may be killed at any time, its workers with it (they are in *)
(* one process group), and is then started again by hand.                  *)
(*                                                                         *)
(* Of a job only the times are kept, of a queue row whether it is marked:  *)
(* nothing here depends on what the solver found.                          *)
(***************************************************************************)
EXTENDS Naturals, FiniteSets, Sequences, SequencesExt

CONSTANTS
  Sub,              \* submissions
  Pools,            \* which pools there may be: jobthreads, subthreads > 1
  File,             \* DiskFiles, that is file contents
  Contents,         \* of each submission: the files of its tarball, or its file
  max_sub_retries,
  DjangoBound,      \* does the settings module of the site bind the name django?
  OldImages,        \* how many Images of a file earlier submissions may have left
  MaxStarts         \* bound: how often the process is started

ASSUME PipelineAssumption ==
  /\ Contents \in [Sub -> Seq(File)]
  /\ Pools \subseteq [subs : BOOLEAN, jobs : BOOLEAN] /\ DjangoBound \in BOOLEAN
  /\ OldImages \subseteq Nat /\ max_sub_retries \in Nat /\ MaxStarts \in Nat

VARIABLES
  \* The database.
  state,            \* of each submission: processing_started, _finished, error
  processing_retries,
  images,           \* Images with a thumbnail and a display image
  serial,           \* the last Image of each file
  uis,              \* UserImages
  jobs,             \* Jobs, each a function of its id
  qsubs, qjobs,     \* unfinished QueuedSubmissions and QueuedJobs of this process
  \* The main process.
  pc, pool,         \* pool: which pools there are
  newsubs, newuis,
  subresults, jobresults, at,
  starts,
  lost,             \* history: did it die of a row that is gone or doubled?
  \* The workers.
  dosub, dojob      \* "raised": and so its row in the queue will be, or is, a failure

database == <<state, processing_retries, images, serial, uis, jobs, qsubs, qjobs>>
results == <<subresults, jobresults>>
main == <<pc, pool, newsubs, newuis, results, at, starts, lost>>
vars == <<database, main, dosub, dojob>>

Image == [file : File, n : Nat]
UserImage == [sub : Sub, image : Image, n : Nat]
JobId == [ui : UserImage, n : Nat]
NoImage == [file |-> "none", n |-> 0]
Idle == [pc |-> "none", at |-> 1, image |-> NoImage, others |-> {}]

TypeInv ==
  /\ state \in [Sub -> {"absent", "new", "started", "finished", "failed"}]
  /\ processing_retries \in [Sub -> 0..max_sub_retries]
  /\ serial \in [File -> Nat] /\ images \subseteq {i \in Image : i.n <= serial[i.file]}
  /\ \A u \in uis : u \in UserImage /\ u.image \in images
  /\ \A j \in DOMAIN jobs :
       /\ j \in JobId /\ j.ui \in uis
       /\ jobs[j] \in {"queued", "started", "ended"}
  /\ qsubs \in [Sub -> Nat] /\ qjobs \subseteq DOMAIN jobs
  /\ pc \in {"down", "look", "scanSubs", "scanJobs", "queueSubs",
             "inSub", "queueJobs", "inJob"}
  /\ pool \in [subs : BOOLEAN, jobs : BOOLEAN] /\ at \in Nat \ {0}
  /\ newsubs \subseteq Sub /\ \A u \in newuis : u \in UserImage
  /\ subresults \in Seq(Sub) /\ \A k \in DOMAIN jobresults : jobresults[k] \in DOMAIN dojob
  /\ starts \in 0..MaxStarts /\ lost \in BOOLEAN
  /\ \A s \in Sub :
       /\ dosub[s].pc \in {"none", "queued", "file", "fetch", "dedup", "create", "link",
                            "ready", "raised"}
       /\ dosub[s].at \in 1..Len(Contents[s]) + 1
       /\ dosub[s].image \in Image \cup {NoImage} /\ dosub[s].others \subseteq Image
  /\ \A j \in DOMAIN dojob : j \in JobId /\ dojob[j] \in {"queued", "run", "ready", "raised"}

Init ==
  /\ state = [s \in Sub |-> "absent"] /\ processing_retries = [s \in Sub |-> 0]
  /\ serial \in [File -> OldImages]
  /\ images = UNION {{[file |-> f, n |-> k] : k \in 1..serial[f]} : f \in File}
  /\ uis = {} /\ jobs = <<>>
  /\ qsubs = [s \in Sub |-> 0] /\ qjobs = {}
  /\ pc = "down" /\ pool = [subs |-> TRUE, jobs |-> TRUE]
  /\ newsubs = {} /\ newuis = {} /\ subresults = <<>> /\ jobresults = <<>> /\ at = 1
  /\ starts = 0 /\ lost = FALSE
  /\ dosub = [s \in Sub |-> Idle] /\ dojob = <<>>

\* The web site saves a submission.
Submit(s) ==
  /\ state[s] = "absent"
  /\ state' = [state EXCEPT ![s] = "new"]
  /\ UNCHANGED <<processing_retries, images, serial, uis, jobs, qsubs, qjobs, main, dosub, dojob>>

-----------------------------------------------------------------------------
(* The main process. *)

\* It ends, and its pools with it.  Nobody reads its rows of the queue again.
Die ==
  /\ pc' = "down"
  /\ newsubs' = {} /\ newuis' = {} /\ subresults' = <<>> /\ jobresults' = <<>> /\ at' = 1
  /\ qsubs' = [s \in Sub |-> 0] /\ qjobs' = {}
  /\ dosub' = [s \in Sub |-> Idle] /\ dojob' = <<>>
  /\ UNCHANGED <<state, processing_retries, images, serial, uis, pool, starts>>

\* kill %1, ctrl-C, or a database error in the main loop, which nothing catches.
Kill == pc # "down" /\ starts < MaxStarts /\ Die /\ UNCHANGED <<jobs, lost>>

\* Mutant: only the jobs that were running are deleted.
Start_KeepsQueued ==
  /\ pc = "down" /\ starts < MaxStarts
  /\ starts' = starts + 1 /\ pc' = "look"
  /\ pool' \in Pools
  /\ state' = [s \in Sub |-> IF state[s] = "started" THEN "new" ELSE state[s]]
  /\ jobs' = Restrict(jobs, {j \in DOMAIN jobs : jobs[j] # "started"})
  /\ lost' = FALSE
  /\ UNCHANGED <<processing_retries, images, serial, uis, qsubs, qjobs,
                 newsubs, newuis, results, at, dosub, dojob>>

\* Submissions that were begun are reset, jobs that did not end deleted.
Start ==
  /\ pc = "down" /\ starts < MaxStarts
  /\ starts' = starts + 1 /\ pc' = "look"
  /\ pool' \in Pools
  /\ state' = [s \in Sub |-> IF state[s] = "started" THEN "new" ELSE state[s]]
  /\ jobs' = Restrict(jobs, {j \in DOMAIN jobs : jobs[j] = "ended"})
  /\ lost' = FALSE
  /\ UNCHANGED <<processing_retries, images, serial, uis, qsubs, qjobs,
                 newsubs, newuis, results, at, dosub, dojob>>

NewSubs == {s \in Sub : state[s] = "new"}
NewImages == {u \in uis : \A j \in DOMAIN jobs : j.ui # u}

Look ==
  /\ pc = "look" /\ pc' = "scanSubs" /\ at' = 1
  /\ newsubs' = NewSubs /\ newuis' = NewImages
  /\ UNCHANGED <<database, pool, results, starts, lost, dosub, dojob>>

\* One turn of the loop over the results.  A result that is ready is taken out of
\* the list, so that the loop passes over the next one, and its row is looked up:
\* without exactly one row, get raises.  The row of a worker that raised is finished
\* without success, and nothing else is done about it.
ScanSub ==
  /\ pc = "scanSubs" /\ at <= Len(subresults)
  /\ LET s == subresults[at]
     IN  IF dosub[s].pc \notin {"ready", "raised"}
           THEN at' = at + 1
                /\ UNCHANGED <<database, pc, newsubs, newuis, results, lost, dosub, dojob>>
         ELSE IF qsubs[s] = 1
           THEN /\ subresults' = RemoveAt(subresults, at)
                /\ qsubs' = [qsubs EXCEPT ![s] = 0]
                /\ dosub' = [dosub EXCEPT ![s] = IF @.pc = "ready" THEN Idle ELSE @]
                /\ at' = at + 1
                /\ UNCHANGED <<state, processing_retries, images, serial, uis, jobs, qjobs,
                               pc, newsubs, newuis, jobresults, lost, dojob>>
           ELSE Die /\ lost' = TRUE /\ UNCHANGED jobs
  /\ UNCHANGED <<pool, starts>>

ScanSubsEnd ==
  /\ pc = "scanSubs" /\ at > Len(subresults) /\ pc' = "scanJobs" /\ at' = 1
  /\ UNCHANGED <<database, pool, newsubs, newuis, results, starts, lost, dosub, dojob>>

\* Mutant: the list goes on behind a result that is taken out.
ScanJob_DropsNext ==
  /\ pc = "scanJobs" /\ at <= Len(jobresults)
  /\ LET j == jobresults[at]
     IN  IF dojob[j] \notin {"ready", "raised"}
           THEN at' = at + 1
                /\ UNCHANGED <<database, pc, newsubs, newuis, results, lost, dosub, dojob>>
         ELSE IF j \in qjobs
           THEN /\ jobresults' = SubSeq(jobresults, 1, at - 1)
                                  \o SubSeq(jobresults, at + 2, Len(jobresults))
                /\ qjobs' = qjobs \ {j}
                /\ dojob' = Restrict(dojob, {k \in DOMAIN dojob : k # j \/ dojob[k] = "raised"})
                /\ at' = at + 1
                /\ UNCHANGED <<state, processing_retries, images, serial, uis, jobs, qsubs,
                               pc, newsubs, newuis, subresults, lost, dosub>>
           ELSE Die /\ lost' = TRUE /\ UNCHANGED jobs
  /\ UNCHANGED <<pool, starts>>

ScanJob ==
  /\ pc = "scanJobs" /\ at <= Len(jobresults)
  /\ LET j == jobresults[at]
     IN  IF dojob[j] \notin {"ready", "raised"}
           THEN at' = at + 1
                /\ UNCHANGED <<database, pc, newsubs, newuis, results, lost, dosub, dojob>>
         ELSE IF j \in qjobs
           THEN /\ jobresults' = RemoveAt(jobresults, at)
                /\ qjobs' = qjobs \ {j}
                /\ dojob' = Restrict(dojob, {k \in DOMAIN dojob : k # j \/ dojob[k] = "raised"})
                /\ at' = at + 1
                /\ UNCHANGED <<state, processing_retries, images, serial, uis, jobs, qsubs,
                               pc, newsubs, newuis, subresults, lost, dosub>>
           ELSE Die /\ lost' = TRUE /\ UNCHANGED jobs
  /\ UNCHANGED <<pool, starts>>

\* An empty list was not fetched before its length is asked for here.
ScanJobsEnd ==
  /\ pc = "scanJobs" /\ at > Len(jobresults) /\ at' = 1
  /\ newsubs' = IF newsubs = {} THEN NewSubs ELSE newsubs
  /\ newuis' = IF newuis = {} THEN NewImages ELSE newuis
  /\ pc' = IF newsubs' = {} /\ newuis' = {} THEN "look" ELSE "queueSubs"
  /\ UNCHANGED <<database, pool, results, starts, lost, dosub, dojob>>

QueueSub(s) ==
  /\ pc = "queueSubs" /\ s \in newsubs
  /\ newsubs' = newsubs \ {s}
  /\ state' = [state EXCEPT ![s] = "started"]
  /\ qsubs' = [qsubs EXCEPT ![s] = @ + 1]
  /\ dosub' = [dosub EXCEPT ![s] = [Idle EXCEPT !.pc = "queued"]]
  /\ IF pool.subs THEN subresults' = Append(subresults, s) /\ UNCHANGED pc
                  ELSE pc' = "inSub" /\ UNCHANGED subresults
  /\ UNCHANGED <<processing_retries, images, serial, uis, jobs, qjobs,
                 pool, newuis, jobresults, at, starts, lost, dojob>>

\* try_dosub returns to the main loop.
InlineSubDone(s) ==
  /\ pc = "inSub" /\ dosub[s].pc = "ready" /\ pc' = "queueSubs"
  /\ dosub' = [dosub EXCEPT ![s] = Idle]
  /\ UNCHANGED <<database, pool, newsubs, newuis, results, at, starts, lost, dojob>>

\* try_dosub raises, and so does the main loop.
InlineSubRaised(s) ==
  pc = "inSub" /\ dosub[s].pc = "raised" /\ Die /\ UNCHANGED <<jobs, lost>>

SubsQueued ==
  /\ pc = "queueSubs" /\ newsubs = {} /\ pc' = "queueJobs"
  /\ UNCHANGED <<database, pool, newsubs, newuis, results, at, starts, lost, dosub, dojob>>

Write(f, x, y) == [z \in DOMAIN f \cup {x} |-> IF z = x THEN y ELSE f[z]]

\* If the UserImage is gone, the Job cannot refer to it.
QueueJob(u) ==
  /\ pc = "queueJobs" /\ u \in newuis
  /\ IF u \in uis
       THEN LET j == [ui |-> u, n |-> Cardinality({k \in DOMAIN jobs : k.ui = u}) + 1]
            IN  /\ newuis' = newuis \ {u}
                /\ jobs' = Write(jobs, j, "queued")
                /\ qjobs' = qjobs \cup {j}
                /\ dojob' = Write(dojob, j, "queued")
                /\ IF pool.jobs THEN jobresults' = Append(jobresults, j) /\ UNCHANGED pc
                                ELSE pc' = "inJob" /\ UNCHANGED jobresults
                /\ UNCHANGED <<state, processing_retries, images, serial, uis, qsubs,
                               newsubs, subresults, at, lost, dosub>>
       ELSE Die /\ lost' = TRUE /\ UNCHANGED jobs
  /\ UNCHANGED <<pool, starts>>

\* dojob returns to the main loop.
InlineJobDone ==
  /\ pc = "inJob" /\ \A j \in DOMAIN dojob : dojob[j] = "ready"
  /\ pc' = "queueJobs" /\ dojob' = <<>>
  /\ UNCHANGED <<database, pool, newsubs, newuis, results, at, starts, lost, dosub>>

\* dojob raises (no try_dojob here), and so does the main loop.
InlineJobRaised(j) ==
  /\ pc = "inJob" /\ dojob[j] = "raised" /\ Die
  /\ lost' = (j \notin DOMAIN jobs) /\ UNCHANGED jobs

JobsQueued ==
  /\ pc = "queueJobs" /\ newuis = {} /\ pc' = "look"
  /\ UNCHANGED <<database, pool, newsubs, newuis, results, at, starts, lost, dosub, dojob>>

-----------------------------------------------------------------------------
(* Workers: try_dosub, dosub. *)

SubRest == <<jobs, qsubs, qjobs, main, dojob>>

\* The submission is finished, with an error message or not.
Finished(s, how) ==
  /\ state' = [state EXCEPT ![s] = how]
  /\ dosub' = [dosub EXCEPT ![s] = [Idle EXCEPT !.pc = "ready"]]
  /\ UNCHANGED <<processing_retries, images, serial, uis>>

\* An exception leaves try_dosub.
Raise(s) ==
  /\ dosub' = [dosub EXCEPT ![s] = [Idle EXCEPT !.pc = "raised"]]
  /\ UNCHANGED <<state, processing_retries, images, serial, uis>>

\* except: the failure is saved, unless that fails too.
Fails(s) == Finished(s, "failed") \/ Raise(s)

\* Mutant: one retry too many.
DatabaseError_OneMore(s) ==
  \/ /\ DjangoBound /\ processing_retries[s] <= max_sub_retries
     /\ processing_retries' = [processing_retries EXCEPT ![s] = @ + 1]
     /\ dosub' = [dosub EXCEPT ![s] = [Idle EXCEPT !.pc = "queued"]]
     /\ UNCHANGED <<state, images, serial, uis>>
  \/ DjangoBound /\ processing_retries[s] > max_sub_retries /\ Finished(s, "failed")
  \/ Raise(s)

\* Mutant: retries are not counted.
DatabaseError_NotCounted(s) ==
  \/ /\ DjangoBound /\ processing_retries[s] < max_sub_retries
     /\ dosub' = [dosub EXCEPT ![s] = [Idle EXCEPT !.pc = "queued"]]
     /\ UNCHANGED <<state, processing_retries, images, serial, uis>>
  \/ DjangoBound /\ processing_retries[s] = max_sub_retries /\ Finished(s, "failed")
  \/ Raise(s)

\* except DatabaseError: close the connection (of a django that is not imported here),
\* look the submission up, and begin again unless the retries are used up.  Each of
\* these may fail, the database being what has just failed, and nothing catches it.
DatabaseError(s) ==
  \/ /\ DjangoBound /\ processing_retries[s] < max_sub_retries
     /\ processing_retries' = [processing_retries EXCEPT ![s] = @ + 1]
     /\ dosub' = [dosub EXCEPT ![s] = [Idle EXCEPT !.pc = "queued"]]
     /\ UNCHANGED <<state, images, serial, uis>>
  \/ DjangoBound /\ processing_retries[s] = max_sub_retries /\ Finished(s, "failed")
  \/ Raise(s)

BeginSub(s) ==
  /\ dosub[s].pc = "queued"
  /\ state' = [state EXCEPT ![s] = "started"]
  /\ dosub' = [dosub EXCEPT ![s].pc = "file"]
  /\ UNCHANGED <<processing_retries, images, serial, uis, SubRest>>

FileOf(s) == Contents[s][dosub[s].at]

ImagesOf(s) == {i \in images : i.file = FileOf(s)}

\* get_or_create_image: get the Image of the next file.
Lookup(s) ==
  /\ dosub[s].pc = "file" /\ dosub[s].at <= Len(Contents[s])
  /\ \/ ImagesOf(s) = {} /\ dosub' = [dosub EXCEPT ![s].pc = "create"]
     \/ \E i \in ImagesOf(s) :
          /\ ImagesOf(s) = {i}
          /\ dosub' = [dosub EXCEPT ![s].pc = "link", ![s].image = i]
     \/ /\ \E i, k \in ImagesOf(s) : i # k
        /\ dosub' = [dosub EXCEPT ![s].pc = "fetch"]
  /\ UNCHANGED <<state, processing_retries, images, serial, uis, SubRest>>

\* There were several: fetch those there are now, to keep one of them.
FetchImages(s) ==
  /\ dosub[s].pc = "fetch"
  /\ \E i \in ImagesOf(s) :
       dosub' = [dosub EXCEPT ![s].image = i, ![s].others = ImagesOf(s) \ {i},
                              ![s].pc = IF ImagesOf(s) = {i} THEN "link" ELSE "dedup"]
  /\ UNCHANGED <<state, processing_retries, images, serial, uis, SubRest>>

\* The others are deleted, with what refers to them, those too that are gone since.
DeleteDuplicate(s) ==
  /\ dosub[s].pc = "dedup"
  /\ \E i \in dosub[s].others :
       /\ images' = images \ {i}
       /\ uis' = {u \in uis : u.image # i}
       /\ jobs' = Restrict(jobs, {j \in DOMAIN jobs : j.ui.image # i})
       /\ qjobs' = {j \in qjobs : j.ui.image # i}
       /\ dosub' = [dosub EXCEPT ![s].others = @ \ {i},
                      ![s].pc = IF dosub[s].others = {i} THEN "link" ELSE "dedup"]
  /\ UNCHANGED <<state, processing_retries, serial, qsubs, main, dojob>>

\* There is none: make one; another worker may be making one too.
CreateImage(s) ==
  /\ dosub[s].pc = "create"
  /\ serial' = [serial EXCEPT ![FileOf(s)] = @ + 1]
  /\ LET i == [file |-> FileOf(s), n |-> serial[FileOf(s)] + 1]
     IN  /\ images' = images \cup {i}
         /\ dosub' = [dosub EXCEPT ![s].pc = "link", ![s].image = i]
  /\ UNCHANGED <<state, processing_retries, uis, SubRest>>

\* create_user_image: always a new one, for its CommentReceiver is.
create_user_image(s) ==
  /\ dosub[s].pc = "link"
  /\ IF dosub[s].image \in images
       THEN LET i == dosub[s].image
                n == Cardinality({u \in uis : u.sub = s /\ u.image = i}) + 1
            IN  /\ uis' = uis \cup {[sub |-> s, image |-> i, n |-> n]}
                /\ dosub' = [dosub EXCEPT ![s].pc = "file", ![s].at = @ + 1]
                /\ UNCHANGED <<state, processing_retries, images, serial>>
       ELSE DatabaseError(s)
  /\ UNCHANGED SubRest

FinishSub(s) ==
  /\ dosub[s].pc = "file" /\ dosub[s].at > Len(Contents[s])
  /\ Finished(s, "finished")
  /\ UNCHANGED SubRest

\* Mutant: a file that is not an image is passed over.
SubFails_Skips(s) ==
  /\ dosub[s].pc = "create"
  /\ dosub' = [dosub EXCEPT ![s].pc = "file", ![s].at = @ + 1]
  /\ UNCHANGED <<state, processing_retries, images, serial, uis, SubRest>>

\* Any other exception: the file cannot be fetched or unpacked, or is not an image;
\* its Images are all gone; the user has no profile.
SubFails(s) ==
  /\ \/ dosub[s].pc \in {"file", "create", "link"}
     \/ dosub[s].pc = "fetch" /\ ImagesOf(s) = {}
  /\ Fails(s)
  /\ UNCHANGED SubRest

\* The database is away.
SubDatabaseError(s) ==
  /\ dosub[s].pc \in {"queued", "file", "fetch", "dedup", "create", "link"}
  /\ DatabaseError(s)
  /\ UNCHANGED SubRest

SubStep(s) ==
  \/ BeginSub(s) \/ Lookup(s) \/ FetchImages(s) \/ DeleteDuplicate(s) \/ CreateImage(s)
  \/ create_user_image(s) \/ FinishSub(s) \/ SubFails(s) \/ SubDatabaseError(s)

-----------------------------------------------------------------------------
(* Workers: try_dojob, dojob. *)

JobRest == <<state, processing_retries, images, serial, uis, qsubs, qjobs, main, dosub>>

\* job.save(), and what comes next in the worker.  A row that is gone cannot be
\* inserted either, for its UserImage is gone with it.
SaveJob(j, row, next) ==
  /\ j \in DOMAIN jobs
  /\ jobs' = Write(jobs, j, row) /\ dojob' = Write(dojob, j, next)
  /\ UNCHANGED JobRest

BeginJob(j) == dojob[j] = "queued" /\ SaveJob(j, "started", "run")

\* Solved or not.
EndJob(j) == dojob[j] = "run" /\ SaveJob(j, "ended", "ready")

\* An exception in dojob that try_dojob catches, and saves; the log it opens then
\* may fail.
CatchJob(j) ==
  /\ pool.jobs /\ dojob[j] \in {"queued", "run"}
  /\ \E next \in {"ready", "raised"} : SaveJob(j, "ended", next)

\* An exception that leaves the worker: there is no try_dojob, or its save fails too.
RaiseJob(j) ==
  /\ dojob[j] \in {"queued", "run"}
  /\ dojob' = Write(dojob, j, "raised")
  /\ UNCHANGED <<jobs, JobRest>>

JobStep(j) == BeginJob(j) \/ EndJob(j) \/ CatchJob(j) \/ RaiseJob(j)

-----------------------------------------------------------------------------
MainStep ==
  \/ Look \/ ScanSub \/ ScanSubsEnd \/ ScanJob \/ ScanJobsEnd
  \/ \E s \in Sub : QueueSub(s) \/ InlineSubDone(s) \/ InlineSubRaised(s)
  \/ SubsQueued \/ InlineJobDone \/ JobsQueued
  \/ \E j \in DOMAIN dojob : InlineJobRaised(j)
  \/ \E u \in newuis : QueueJob(u)

WorkerStep ==
  \/ \E s \in Sub : SubStep(s)
  \/ \E j \in DOMAIN dojob : JobStep(j)

\* Nobody starts the process again.
Stopped == pc = "down" /\ starts = MaxStarts /\ UNCHANGED vars

Next ==
  \/ \E s \in Sub : Submit(s)
  \/ Kill \/ Start \/ MainStep \/ WorkerStep
  \/ Stopped

Spec == Init /\ [][Next]_vars

\* The main process goes on, and so does some worker while there is work.
FairSpec == Spec /\ WF_vars(MainStep) /\ WF_vars(WorkerStep)

-----------------------------------------------------------------------------
(* Properties. *)

\* A submission that is finished without error has a UserImage of each of its
\* files, however often it was retried or begun anew after a kill.
FinishedHasImages ==
  \A s \in Sub : state[s] = "finished" =>
    \A k \in DOMAIN Contents[s] :
      \E u \in uis : u.sub = s /\ u.image.file = Contents[s][k]

\* While the process runs, what looks begun in the database is with a worker, or
\* its worker raised, which the queue says; nothing is merely forgotten, though the
\* main loop would never take it up again.  No image has two jobs.
NothingStranded ==
  /\ pc # "down" =>
       /\ \A s \in Sub : state[s] = "started" => dosub[s].pc \notin {"none", "ready"}
       /\ \A j \in DOMAIN jobs : jobs[j] # "ended" => j \in DOMAIN dojob /\ dojob[j] # "ready"
  /\ \A j, k \in DOMAIN jobs : j.ui = k.ui => j = k

\* Each attempt at a submission, after a start of the process or on a retry, adds
\* at most one UserImage of a file.
CopiesBounded ==
  \A s \in Sub, f \in File :
    Cardinality({u \in uis : u.sub = s /\ u.image.file = f}) <= starts + processing_retries[s]

\* The rows that the main process relies on, of queued submissions, queued jobs and
\* images without a job, are there and not doubled when it looks them up: if it ends
\* over one of them, some worker has deleted the image of a job or row it has in hand.
MainSurvives ==
  [][~lost /\ lost' => \E u \in newuis \cup {j.ui : j \in DOMAIN dojob} : u.image \notin images]_vars

\* If the process is left alone from some time on, all there is gets done, or its
\* worker raised: each submission is finished, each of its images has a job that
\* ended, and the results of all of them are entered in the queue.
AllProcessed ==
  <>[](pc # "down") =>
    <>[](/\ \A s \in Sub :
              state[s] \in {"absent", "finished", "failed"} \/ dosub[s].pc = "raised"
         /\ \A u \in uis : \E j \in DOMAIN jobs :
              j.ui = u /\ (jobs[j] = "ended" \/ (j \in DOMAIN dojob /\ dojob[j] = "raised"))
         /\ pool.subs => \A s \in Sub : qsubs[s] = 0
         /\ pool.jobs => qjobs = {})

=============================================================================
