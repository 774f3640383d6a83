--------------------------- MODULE PipelineProofs ---------------------------
(***************************************************************************)
(* Proofs about Pipeline, for every set of submissions, contents, pools,   *)
(* leftover images, retries and starts.                                    *)
(***************************************************************************)
EXTENDS Pipeline, FiniteSetTheorems, SequenceTheorems, TLAPS

\* A worker of a submission.
Worker == [pc : {"none", "queued", "file", "fetch", "dedup", "create", "link",
                 "ready", "raised"},
           at : Nat \ {0}, image : Image \cup {NoImage}, others : SUBSET Image]

\* The submission is being worked on, or its worker has raised.
Active(s) == dosub[s].pc \notin {"none", "ready"}

\* The worker is at one of its files.
AtFile(s) == dosub[s].pc \in {"fetch", "dedup", "create", "link"}

Distinct(q) == \A k, l \in DOMAIN q : q[k] = q[l] => k = l

-----------------------------------------------------------------------------
(* The invariant: submissions, images, jobs. *)

SubsTyped ==
  /\ state \in [Sub -> {"absent", "new", "started", "finished", "failed"}]
  /\ processing_retries \in [Sub -> 0..max_sub_retries]
  /\ qsubs \in [Sub -> Nat]
  /\ pc \in {"down", "look", "scanSubs", "scanJobs", "queueSubs",
             "inSub", "queueJobs", "inJob"}
  /\ pool \in [subs : BOOLEAN, jobs : BOOLEAN] /\ at \in Nat \ {0}
  /\ newsubs \subseteq Sub /\ subresults \in Seq(Sub)
  /\ starts \in 0..MaxStarts /\ lost \in BOOLEAN
  /\ dosub \in [Sub -> Worker]

\* Where each submission is.
SubsPlaced ==
  /\ \A s \in Sub :
       /\ dosub[s].at <= Len(Contents[s]) + 1
       /\ AtFile(s) => dosub[s].at <= Len(Contents[s])
       /\ state[s] \in {"absent", "new"} => dosub[s].pc = "none" /\ qsubs[s] = 0
       /\ pc = "down" => dosub[s].pc = "none" /\ qsubs[s] = 0
       /\ pc # "down" => (state[s] = "started" <=> Active(s))
       /\ s \in newsubs => state[s] = "new"
  /\ pc = "down" => newsubs = {} /\ subresults = <<>>

\* The results waited for are those of queued submissions.
ResultsOfSubs ==
  /\ \A k \in DOMAIN subresults :
       qsubs[subresults[k]] = 1 /\ dosub[subresults[k]].pc # "none"
  /\ Distinct(subresults)
  /\ ~pool.subs => subresults = <<>>
  /\ pc = "inSub" => ~pool.subs

Numbers(s, i) == {u \in uis : u.sub = s /\ u.image = i}

\* Images and UserImages have numbers of their own, which are not used again.
ImagesNumbered ==
  /\ serial \in [File -> Nat] /\ images \subseteq Image
  /\ \A i \in images : i.n <= serial[i.file]
  /\ uis \subseteq UserImage /\ IsFiniteSet(uis)
  /\ \A u \in uis : u.image \in images /\ u.n \in 1..Cardinality(Numbers(u.sub, u.image))
  /\ \A s \in Sub : dosub[s].pc \in {"dedup", "link"} =>
       /\ dosub[s].image \in Image /\ dosub[s].image.file = FileOf(s)
       /\ dosub[s].image.n <= serial[FileOf(s)]

JobsTyped ==
  /\ \A j \in DOMAIN jobs :
       j \in JobId /\ j.ui \in uis /\ jobs[j] \in {"queued", "started", "ended"}
  /\ \A j \in DOMAIN dojob : j \in JobId /\ dojob[j] \in {"queued", "run", "ready", "raised"}
  /\ qjobs \subseteq DOMAIN jobs /\ newuis \subseteq UserImage
  /\ jobresults \in Seq(JobId)

\* A UserImage is there, or is gone for ever.
Past(u) == u \in uis \/ (u.image \notin images /\ u.image.n <= serial[u.image.file])

\* Where each job is.
JobsPlaced ==
  /\ \A j, k \in DOMAIN jobs : j.ui = k.ui => j = k
  /\ \A j \in DOMAIN jobs : pc # "down" /\ jobs[j] # "ended" =>
       j \in DOMAIN dojob /\ dojob[j] # "ready"
  /\ \A j \in DOMAIN dojob : Past(j.ui) /\ (j.ui \in uis => j \in DOMAIN jobs)
  /\ \A u \in newuis : Past(u) /\ \A j \in DOMAIN jobs : j.ui # u
  /\ pc = "down" => DOMAIN dojob = {} /\ newuis = {} /\ jobresults = <<>> /\ qjobs = {}

ResultsOfJobs ==
  /\ \A k \in DOMAIN jobresults : jobresults[k] \in DOMAIN dojob
  /\ Distinct(jobresults)
  /\ ~pool.jobs => jobresults = <<>>
  /\ pc = "inJob" => ~pool.jobs

IInv ==
  /\ SubsTyped /\ SubsPlaced /\ ResultsOfSubs
  /\ ImagesNumbered /\ JobsTyped /\ JobsPlaced /\ ResultsOfJobs

-----------------------------------------------------------------------------
(* If no two submissions have a file in common.                            *)

Apart ==
  \A s, t \in Sub : s # t =>
    \A k \in DOMAIN Contents[s], l \in DOMAIN Contents[t] : Contents[s][k] # Contents[t][l]

\* What the worker of s knows of the Images of its file.
Knows(s) ==
  /\ dosub[s].pc = "create" => \A i \in images : i.file # FileOf(s)
  /\ dosub[s].pc = "link" => \A i \in images : i.file = FileOf(s) => i = dosub[s].image
  /\ dosub[s].pc \in {"dedup", "link"} => dosub[s].image \in images
  /\ dosub[s].pc \in {"fetch", "dedup"} => \A u \in uis : u.image.file # FileOf(s)
  /\ dosub[s].pc = "dedup" =>
       /\ \A i \in images : i.file = FileOf(s) => i = dosub[s].image \/ i \in dosub[s].others
       /\ \A i \in dosub[s].others : i.file = FileOf(s) /\ i # dosub[s].image

\* An Image that is referred to is the only one of its file.
OnlyImage ==
  /\ \A u \in uis, i \in images : i.file = u.image.file => i = u.image
  /\ \A s \in Sub : Knows(s)

\* The files a submission has been through have a UserImage.
HasImages ==
  \A s \in Sub : \A k \in DOMAIN Contents[s] :
    state[s] = "finished" \/ (Active(s) /\ k < dosub[s].at) =>
      \E u \in uis : u.sub = s /\ u.image.file = Contents[s][k]

AInv == IInv /\ OnlyImage /\ HasImages

-----------------------------------------------------------------------------
(* If no submission has a file twice.                                      *)

NoRepeat == \A s \in Sub : Distinct(Contents[s])

Copies(s, f) == {u \in uis : u.sub = s /\ u.image.file = f}

\* The present attempt at the submission may have added a copy.
Added(s, f) ==
  \/ pc = "down" \/ state[s] \in {"finished", "failed"}
  \/ dosub[s].pc = "raised"
  \/ Active(s) /\ \E k \in DOMAIN Contents[s] : k < dosub[s].at /\ Contents[s][k] = f

Counted(s, f) ==
  /\ Cardinality(Copies(s, f)) <= starts + processing_retries[s]
  /\ ~Added(s, f) => Cardinality(Copies(s, f)) < starts + processing_retries[s]

CopiesCounted == \A s \in Sub, f \in File : Counted(s, f)

CInv == IInv /\ CopiesCounted

-----------------------------------------------------------------------------
(* Lists of results. *)

LEMMA RemovedAt ==
  ASSUME NEW T, NEW q \in Seq(T), Distinct(q), NEW k \in 1..Len(q)
  PROVE  /\ RemoveAt(q, k) \in Seq(T) /\ Distinct(RemoveAt(q, k))
         /\ \A l \in DOMAIN RemoveAt(q, k) : \E m \in DOMAIN q :
              RemoveAt(q, k)[l] = q[m] /\ q[m] # q[k]
<1> DEFINE a == SubSeq(q, 1, k - 1)
           b == SubSeq(q, k + 1, Len(q))
           r == RemoveAt(q, k)
<1>0. Len(q) \in Nat /\ k \in Nat /\ 1 <= k /\ k <= Len(q) /\ DOMAIN q = 1..Len(q)
  OBVIOUS
<1> DEFINE n == Len(q)
<1>a. /\ a \in Seq(T) /\ Len(a) = k - 1
      /\ \A l \in 1..k - 1 : a[l] = q[l]
  <2>1. 1 \in Int /\ k - 1 \in Int /\ \A i \in 1..k - 1 : q[i] \in T
    BY <1>0
  <2>2. /\ SubSeq(q, 1, k - 1) \in Seq(T)
        /\ Len(SubSeq(q, 1, k - 1)) = IF 1 <= k - 1 THEN k - 1 - 1 + 1 ELSE 0
        /\ \A i \in 1..k - 1 - 1 + 1 : SubSeq(q, 1, k - 1)[i] = q[1 + i - 1]
    BY <2>1, SubSeqProperties
  <2>3. k - 1 - 1 + 1 = k - 1 /\ (1 <= k - 1 \/ k - 1 = 0) /\ \A i \in 1..k - 1 : 1 + i - 1 = i
    BY <1>0
  <2> QED BY <2>2, <2>3
<1>b. /\ b \in Seq(T) /\ Len(b) = Len(q) - k
      /\ \A l \in 1..Len(q) - k : b[l] = q[k + l]
  <2> DEFINE m == k + 1
  <2>1. m \in Int /\ n \in Int /\ \A i \in m..n : q[i] \in T
    BY <1>0
  <2>2. ASSUME m \in Int, n \in Int, \A i \in m..n : q[i] \in T
        PROVE  /\ SubSeq(q, m, n) \in Seq(T)
               /\ Len(SubSeq(q, m, n)) = IF m <= n THEN n - m + 1 ELSE 0
               /\ \A i \in 1..n - m + 1 : SubSeq(q, m, n)[i] = q[m + i - 1]
    <3> HIDE DEF m, n
    <3> QED BY <2>2, SubSeqProperties
  <2>3. n - m + 1 = n - k /\ (m <= n \/ n - k = 0) /\ \A i \in 1..n - k : m + i - 1 = k + i
    <3>1. n \in Nat /\ k \in Nat /\ k <= n
      BY <1>0
    <3> HIDE DEF n
    <3>2. n - m + 1 = n - k
      BY <3>1
    <3>3. m <= n \/ n - k = 0
      BY <3>1
    <3>4. \A i \in 1..n - k : m + i - 1 = k + i
      BY <3>1
    <3> QED BY <3>2, <3>3, <3>4
  <2> QED
    <3>1. b = SubSeq(q, m, n) /\ n = Len(q)
      OBVIOUS
    <3> HIDE DEF b, m, n
    <3>2. b \in Seq(T) /\ Len(b) = n - k
      BY <2>1, <2>2, <2>3, <3>1
    <3>3. \A i \in 1..n - k : b[i] = q[m + i - 1]
      BY <2>1, <2>2, <2>3, <3>1
    <3>4. \A i \in 1..n - k : b[i] = q[k + i]
      BY <2>3, <3>3
    <3> QED BY <3>1, <3>2, <3>4
<1>c. r = a \o b
  BY DEF RemoveAt
<1> HIDE DEF a, b, r
<1>d. /\ r \in Seq(T) /\ Len(r) = Len(q) - 1
      /\ \A l \in 1..Len(r) : r[l] = IF l <= k - 1 THEN a[l] ELSE b[l - (k - 1)]
  <2>1. /\ a \o b \in Seq(T) /\ Len(a \o b) = Len(a) + Len(b)
        /\ \A i \in 1..Len(a) + Len(b) :
             (a \o b)[i] = IF i <= Len(a) THEN a[i] ELSE b[i - Len(a)]
    BY <1>a, <1>b, ConcatProperties
  <2>2. n \in Nat /\ n = Len(q) /\ Len(a) + Len(b) = n - 1
    BY <1>0, <1>a, <1>b
  <2> HIDE DEF n
  <2>3. r \in Seq(T) /\ Len(r) = n - 1
    BY <2>1, <2>2, <1>c
  <2>4. \A l \in 1..n - 1 : r[l] = IF l <= k - 1 THEN a[l] ELSE b[l - (k - 1)]
    BY <2>1, <2>2, <1>a, <1>c
  <2> QED BY <2>2, <2>3, <2>4
<1>1. \A l \in 1..Len(r) : r[l] = IF l < k THEN q[l] ELSE q[l + 1]
  <2> TAKE l \in 1..Len(r)
  <2>1. CASE l < k
    BY <2>1, <1>0, <1>a, <1>d
  <2>2. CASE ~(l < k)
    <3>1. l - (k - 1) \in 1..Len(q) - k /\ k + (l - (k - 1)) = l + 1
      BY <2>2, <1>0, <1>d
    <3> QED BY <2>2, <3>1, <1>0, <1>b, <1>d
  <2> QED BY <2>1, <2>2
<1>2. DOMAIN r = 1..Len(r)
  BY <1>d
<1>3. Distinct(r)
  <2> SUFFICES ASSUME NEW l \in DOMAIN r, NEW m \in DOMAIN r, r[l] = r[m]
               PROVE  l = m
    BY DEF Distinct
  <2> DEFINE d(x) == IF x < k THEN x ELSE x + 1
  <2>1. /\ d(l) \in DOMAIN q /\ r[l] = q[d(l)]
        /\ d(m) \in DOMAIN q /\ r[m] = q[d(m)]
    BY <1>0, <1>d, <1>1, <1>2
  <2>2. d(l) = d(m)
    <3> HIDE DEF d
    <3> QED BY <2>1 DEF Distinct
  <2> QED BY <2>2, <1>0, <1>d, <1>2
<1>4. ASSUME NEW l \in DOMAIN r
      PROVE  \E m \in DOMAIN q : r[l] = q[m] /\ q[m] # q[k]
  <2> DEFINE m == IF l < k THEN l ELSE l + 1
  <2>1. m \in DOMAIN q /\ m # k /\ r[l] = q[m]
    BY <1>0, <1>d, <1>1, <1>2
  <2> HIDE DEF m
  <2>2. q[m] # q[k]
    BY <1>0, <2>1 DEF Distinct
  <2> QED BY <2>1, <2>2
<1> QED
  <2>1. \A l \in DOMAIN r : \E m \in DOMAIN q : r[l] = q[m] /\ q[m] # q[k]
    BY <1>4
  <2> QED BY <1>d, <1>3, <2>1 DEF r

LEMMA AppendedTo ==
  ASSUME NEW T, NEW q \in Seq(T), Distinct(q), NEW x \in T, \A k \in DOMAIN q : q[k] # x
  PROVE  /\ Append(q, x) \in Seq(T) /\ Distinct(Append(q, x))
         /\ \A l \in DOMAIN Append(q, x) :
              Append(q, x)[l] = x \/ \E m \in DOMAIN q : Append(q, x)[l] = q[m]
<1> DEFINE r == Append(q, x)
<1>1. /\ r \in Seq(T) /\ Len(r) = Len(q) + 1 /\ Len(q) \in Nat
      /\ DOMAIN r = 1..Len(r) /\ DOMAIN q = 1..Len(q)
      /\ \A l \in 1..Len(q) : r[l] = q[l]
      /\ r[Len(q) + 1] = x
  OBVIOUS
<1> HIDE DEF r
<1>2. \A l \in DOMAIN r : l \in DOMAIN q \/ l = Len(q) + 1
  BY <1>1
<1>3. \A l \in DOMAIN r : r[l] = x \/ \E m \in DOMAIN q : r[l] = q[m]
  BY <1>1, <1>2
<1>4. Distinct(r)
  BY <1>1, <1>2 DEF Distinct
<1> QED BY <1>1, <1>3, <1>4 DEF r

-----------------------------------------------------------------------------
(* What a step leaves alone. *)

LEMMA SubsSame ==
  ASSUME SubsTyped, SubsPlaced, ResultsOfSubs,
         UNCHANGED <<state, processing_retries, qsubs, pool, newsubs, subresults, starts, lost, dosub>>,
         at' \in Nat \ {0},
         pc' \in {"down", "look", "scanSubs", "scanJobs", "queueSubs",
                 "inSub", "queueJobs", "inJob"},
         pc' = "down" <=> pc = "down", pc' = "inSub" => pc = "inSub"
  PROVE  SubsTyped' /\ SubsPlaced' /\ ResultsOfSubs'
<1>1. SubsTyped'
  BY DEF SubsTyped
<1>2. SubsPlaced'
  BY DEF SubsPlaced, Active, AtFile
<1>3. ResultsOfSubs'
  BY DEF ResultsOfSubs, Distinct
<1> QED BY <1>1, <1>2, <1>3

LEMMA ImagesSame ==
  ASSUME ImagesNumbered, UNCHANGED <<serial, images, uis>>,
         \A s \in Sub : dosub'[s] = dosub[s] \/ dosub'[s].pc \notin {"dedup", "link"}
  PROVE  ImagesNumbered'
<1>1. \A s \in Sub : dosub'[s].pc \in {"dedup", "link"} =>
        /\ dosub'[s].image \in Image /\ dosub'[s].image.file = FileOf(s)'
        /\ dosub'[s].image.n <= serial'[FileOf(s)']
  BY DEF ImagesNumbered, FileOf
<1>2. \A u \in uis' : u.image \in images' /\ u.n \in 1..Cardinality(Numbers(u.sub, u.image)')
  BY DEF ImagesNumbered, Numbers
<1> QED BY <1>1, <1>2 DEF ImagesNumbered

LEMMA JobsSame ==
  ASSUME JobsTyped, JobsPlaced, ResultsOfJobs,
         UNCHANGED <<jobs, dojob, newuis, jobresults, qjobs, uis, images, serial, pool>>,
         pc' = "down" <=> pc = "down", pc' = "inJob" => pc = "inJob"
  PROVE  JobsTyped' /\ JobsPlaced' /\ ResultsOfJobs'
<1>1. JobsTyped'
  BY DEF JobsTyped
<1>2. JobsPlaced'
  BY DEF JobsPlaced, Past
<1>3. ResultsOfJobs'
  BY DEF ResultsOfJobs, Distinct
<1> QED BY <1>1, <1>2, <1>3

\* A step of the worker of s, which is at work.
LEMMA WorkerSub ==
  ASSUME SubsTyped, SubsPlaced, ResultsOfSubs,
         NEW s \in Sub, NEW w \in Worker, Active(s),
         dosub' = [dosub EXCEPT ![s] = w],
         w.at <= Len(Contents[s]) + 1, w.pc # "none",
         w.pc \in {"fetch", "dedup", "create", "link"} => w.at <= Len(Contents[s]),
         NEW x \in {"started", "finished", "failed"}, state' = [state EXCEPT ![s] = x],
         w.pc = "ready" <=> x # "started",
         processing_retries' \in [Sub -> 0..max_sub_retries],
         UNCHANGED <<qsubs, pc, pool, at, newsubs, subresults, starts, lost>>
  PROVE  /\ SubsTyped' /\ SubsPlaced' /\ ResultsOfSubs'
         /\ pc # "down" /\ state[s] = "started"
<1>1. pc # "down" /\ state[s] = "started" /\ s \notin newsubs
  BY DEF SubsTyped, SubsPlaced, Active
<1>2. /\ \A t \in Sub : t # s => dosub'[t] = dosub[t] /\ state'[t] = state[t]
      /\ dosub'[s] = w /\ state'[s] = x
  BY DEF SubsTyped
<1>3. SubsTyped'
  BY DEF SubsTyped
<1>4. SubsPlaced'
  <2>1. ASSUME NEW t \in Sub
        PROVE  /\ dosub'[t].at <= Len(Contents[t]) + 1
               /\ AtFile(t)' => dosub'[t].at <= Len(Contents[t])
               /\ state'[t] \in {"absent", "new"} => dosub'[t].pc = "none" /\ qsubs'[t] = 0
               /\ state'[t] = "started" <=> Active(t)'
               /\ t \in newsubs' => state'[t] = "new"
    <3>1. CASE t = s
      BY <3>1, <1>1, <1>2 DEF AtFile, Active
    <3>2. CASE t # s
      BY <3>2, <1>1, <1>2 DEF AtFile, Active, SubsPlaced
    <3> QED BY <3>1, <3>2
  <2> QED BY <2>1, <1>1 DEF SubsPlaced
<1>5. ResultsOfSubs'
  <2>1. \A k \in DOMAIN subresults : subresults[k] \in Sub
    BY DEF SubsTyped
  <2> QED BY <2>1, <1>2 DEF ResultsOfSubs, Distinct
<1> QED BY <1>1, <1>3, <1>4, <1>5

-----------------------------------------------------------------------------
(* The steps of the main process. *)

LEMMA StutterStep == IInv /\ UNCHANGED vars => IInv'
<1> SUFFICES ASSUME IInv, UNCHANGED vars PROVE IInv'
  OBVIOUS
<1>1. UNCHANGED <<database, main, dosub, dojob>>
  BY DEF vars
<1>2. SubsTyped' /\ SubsPlaced' /\ ResultsOfSubs'
  BY <1>1, SubsSame DEF IInv, database, main, results, SubsTyped
<1>3. ImagesNumbered'
  BY <1>1, ImagesSame DEF IInv, database
<1>4. JobsTyped' /\ JobsPlaced' /\ ResultsOfJobs'
  BY <1>1, JobsSame DEF IInv, database, main, results
<1> QED BY <1>2, <1>3, <1>4 DEF IInv

LEMMA SubmitStep ==
  ASSUME NEW s \in Sub
  PROVE  IInv /\ Submit(s) => IInv'
<1> SUFFICES ASSUME IInv, Submit(s) PROVE IInv'
  OBVIOUS
<1>1. /\ UNCHANGED <<processing_retries, images, serial, uis, jobs, qsubs, qjobs, dosub, dojob>>
      /\ UNCHANGED <<pc, pool, newsubs, newuis, subresults, jobresults, at, starts, lost>>
  BY DEF Submit, main, results
<1>2. /\ state[s] = "absent" /\ state'[s] = "new"
      /\ \A t \in Sub : t # s => state'[t] = state[t]
      /\ state' \in [Sub -> {"absent", "new", "started", "finished", "failed"}]
  BY DEF Submit, IInv, SubsTyped
<1>3. SubsTyped'
  BY <1>1, <1>2 DEF IInv, SubsTyped
<1>4. SubsPlaced'
  BY <1>1, <1>2 DEF IInv, SubsPlaced, Active, AtFile
<1>5. ResultsOfSubs'
  BY <1>1 DEF IInv, ResultsOfSubs, Distinct
<1>6. ImagesNumbered'
  BY <1>1, ImagesSame DEF IInv
<1>7. JobsTyped' /\ JobsPlaced' /\ ResultsOfJobs'
  BY <1>1, JobsSame DEF IInv
<1> QED BY <1>3, <1>4, <1>5, <1>6, <1>7 DEF IInv

LEMMA IdleWorker ==
  /\ Idle \in Worker /\ Idle.pc = "none" /\ Idle.at = 1
  /\ \A s \in Sub : Len(Contents[s]) \in Nat
<1>1. Idle \in Worker /\ Idle.pc = "none" /\ Idle.at = 1
  BY DEF Idle, Worker
<1>2. \A s \in Sub : Contents[s] \in Seq(File)
  BY PipelineAssumption
<1> QED BY <1>1, <1>2

LEMMA DieStep == IInv /\ Die /\ UNCHANGED jobs /\ lost' \in BOOLEAN => IInv'
<1> SUFFICES ASSUME IInv, Die, UNCHANGED jobs, lost' \in BOOLEAN PROVE IInv'
  OBVIOUS
<1>1. /\ UNCHANGED <<state, processing_retries, images, serial, uis, jobs, pool, starts>>
      /\ pc' = "down" /\ newsubs' = {} /\ newuis' = {} /\ subresults' = <<>>
      /\ jobresults' = <<>> /\ at' = 1 /\ qjobs' = {} /\ dojob' = <<>>
      /\ \A s \in Sub : dosub'[s] = Idle /\ qsubs'[s] = 0
      /\ dosub' = [s \in Sub |-> Idle] /\ qsubs' = [s \in Sub |-> 0]
  BY DEF Die
<1>2. SubsTyped'
  BY <1>1, IdleWorker DEF IInv, SubsTyped
<1>3. SubsPlaced'
  BY <1>1, IdleWorker DEF IInv, SubsPlaced, Active, AtFile
<1>4. ResultsOfSubs'
  BY <1>1 DEF ResultsOfSubs, Distinct
<1>5. ImagesNumbered'
  BY <1>1, IdleWorker, ImagesSame DEF IInv
<1>6. DOMAIN dojob' = {} /\ DOMAIN jobresults' = {}
  BY <1>1
<1>7. JobsTyped'
  BY <1>1, <1>6 DEF IInv, JobsTyped
<1>8. JobsPlaced'
  BY <1>1, <1>6 DEF IInv, JobsPlaced
<1>9. ResultsOfJobs'
  BY <1>1, <1>6 DEF ResultsOfJobs, Distinct
<1> QED BY <1>2, <1>3, <1>4, <1>5, <1>7, <1>8, <1>9 DEF IInv

LEMMA StartStep == IInv /\ Start => IInv'
<1> SUFFICES ASSUME IInv, Start PROVE IInv'
  OBVIOUS
<1>1. /\ UNCHANGED <<processing_retries, images, serial, uis, qsubs, qjobs, newsubs, newuis>>
      /\ UNCHANGED <<subresults, jobresults, at, dosub, dojob>> /\ lost' = FALSE
      /\ pc = "down" /\ pc' = "look" /\ starts' = starts + 1 /\ starts < MaxStarts
      /\ pool' \in Pools
      /\ state' = [s \in Sub |-> IF state[s] = "started" THEN "new" ELSE state[s]]
  BY DEF Start, results
<1>2. /\ DOMAIN jobs' = {j \in DOMAIN jobs : jobs[j] = "ended"}
      /\ \A j \in DOMAIN jobs' : jobs'[j] = jobs[j]
  BY DEF Start, Restrict
<1>3. SubsTyped'
  <2>1. starts' \in 0..MaxStarts
    BY <1>1, PipelineAssumption DEF IInv, SubsTyped
  <2>2. pool' \in [subs : BOOLEAN, jobs : BOOLEAN]
    BY <1>1, PipelineAssumption
  <2>3. state' \in [Sub -> {"absent", "new", "started", "finished", "failed"}]
    BY <1>1 DEF IInv, SubsTyped
  <2> QED BY <1>1, <2>1, <2>2, <2>3 DEF IInv, SubsTyped
<1>4. SubsPlaced'
  BY <1>1 DEF IInv, SubsTyped, SubsPlaced, Active, AtFile
<1>5. ResultsOfSubs'
  BY <1>1 DEF IInv, SubsPlaced, ResultsOfSubs, Distinct
<1>6. ImagesNumbered'
  BY <1>1, ImagesSame DEF IInv
<1>7. JobsTyped'
  BY <1>1, <1>2 DEF IInv, JobsTyped, JobsPlaced
<1>8. JobsPlaced'
  BY <1>1, <1>2 DEF IInv, JobsPlaced, Past
<1>9. ResultsOfJobs'
  BY <1>1 DEF IInv, JobsPlaced, ResultsOfJobs, Distinct
<1> QED BY <1>3, <1>4, <1>5, <1>6, <1>7, <1>8, <1>9 DEF IInv

LEMMA LookStep == IInv /\ Look => IInv'
<1> SUFFICES ASSUME IInv, Look PROVE IInv'
  OBVIOUS
<1>1. /\ UNCHANGED <<state, processing_retries, images, serial, uis, jobs, qsubs, qjobs>>
      /\ UNCHANGED <<pool, subresults, jobresults, starts, lost, dosub, dojob>>
      /\ pc = "look" /\ pc' = "scanSubs" /\ at' = 1
      /\ newsubs' = NewSubs /\ newuis' = NewImages
  BY DEF Look, database, results
<1>2. /\ newsubs' \subseteq Sub /\ \A s \in newsubs' : state[s] = "new"
      /\ newuis' \subseteq uis /\ \A u \in newuis' : \A j \in DOMAIN jobs : j.ui # u
  BY <1>1 DEF NewSubs, NewImages
<1>3. SubsTyped'
  BY <1>1, <1>2 DEF IInv, SubsTyped
<1>4. SubsPlaced'
  BY <1>1, <1>2 DEF IInv, SubsPlaced, Active, AtFile
<1>5. ResultsOfSubs'
  BY <1>1 DEF IInv, ResultsOfSubs, Distinct
<1>6. ImagesNumbered'
  BY <1>1, ImagesSame DEF IInv
<1>7. JobsTyped'
  BY <1>1, <1>2 DEF IInv, JobsTyped, ImagesNumbered
<1>8. JobsPlaced'
  BY <1>1, <1>2 DEF IInv, JobsPlaced, Past
<1>9. ResultsOfJobs'
  BY <1>1 DEF IInv, ResultsOfJobs, Distinct
<1> QED BY <1>3, <1>4, <1>5, <1>6, <1>7, <1>8, <1>9 DEF IInv

LEMMA ScanSubStep == IInv /\ ScanSub => IInv'
<1> SUFFICES ASSUME IInv, ScanSub PROVE IInv'
  OBVIOUS
<1> DEFINE s == subresults[at]
<1>1. /\ pc = "scanSubs" /\ at \in 1..Len(subresults) /\ s \in Sub /\ at + 1 \in Nat \ {0}
      /\ subresults \in Seq(Sub) /\ DOMAIN subresults = 1..Len(subresults)
      /\ UNCHANGED <<pool, starts>>
  BY DEF ScanSub, IInv, SubsTyped
<1>2. CASE dosub[s].pc \notin {"ready", "raised"}
  <2>1. /\ at' = at + 1
        /\ UNCHANGED <<database, pc, newsubs, newuis, results, lost, dosub, dojob>>
    BY <1>2 DEF ScanSub
  <2>2. SubsTyped' /\ SubsPlaced' /\ ResultsOfSubs'
    BY <1>1, <2>1, SubsSame DEF IInv, database, results
  <2>3. ImagesNumbered'
    BY <2>1, ImagesSame DEF IInv, database
  <2>4. JobsTyped' /\ JobsPlaced' /\ ResultsOfJobs'
    BY <1>1, <2>1, JobsSame DEF IInv, database, results
  <2> QED BY <2>2, <2>3, <2>4 DEF IInv
<1>3. CASE dosub[s].pc \in {"ready", "raised"} /\ qsubs[s] = 1
  <2>1. /\ subresults' = RemoveAt(subresults, at) /\ at' = at + 1
        /\ qsubs' = [qsubs EXCEPT ![s] = 0]
        /\ dosub' = [dosub EXCEPT ![s] = IF @.pc = "ready" THEN Idle ELSE @]
        /\ UNCHANGED <<state, processing_retries, images, serial, uis, jobs, qjobs>>
        /\ UNCHANGED <<pc, newsubs, newuis, jobresults, lost, dojob>>
    BY <1>3 DEF ScanSub
  <2>2. /\ subresults' \in Seq(Sub) /\ Distinct(subresults)'
        /\ \A k \in DOMAIN subresults' : \E l \in DOMAIN subresults :
             subresults'[k] = subresults[l] /\ subresults[l] # s
    <3>1. Distinct(subresults)
      BY DEF IInv, ResultsOfSubs
    <3>2. /\ RemoveAt(subresults, at) \in Seq(Sub) /\ Distinct(RemoveAt(subresults, at))
          /\ \A k \in DOMAIN RemoveAt(subresults, at) : \E l \in DOMAIN subresults :
               RemoveAt(subresults, at)[k] = subresults[l] /\ subresults[l] # subresults[at]
      BY <1>1, <3>1, RemovedAt, ZenonT(30)
    <3> QED BY <2>1, <3>2 DEF Distinct
  <2>3. /\ \/ dosub[s].pc = "ready" /\ dosub'[s] = Idle
           \/ dosub[s].pc = "raised" /\ dosub'[s] = dosub[s]
        /\ qsubs'[s] = 0
        /\ \A t \in Sub : t # s => dosub'[t] = dosub[t] /\ qsubs'[t] = qsubs[t]
        /\ dosub' \in [Sub -> Worker] /\ qsubs' \in [Sub -> Nat]
    <3>1. dosub \in [Sub -> Worker] /\ qsubs \in [Sub -> Nat]
      BY DEF IInv, SubsTyped
    <3> HIDE DEF s
    <3> QED BY <1>1, <1>3, <2>1, <3>1, IdleWorker
  <2> HIDE DEF s
  <2>4. SubsTyped'
    BY <1>1, <2>1, <2>2, <2>3 DEF IInv, SubsTyped
  <2>5. SubsPlaced'
    <3>1. \A t \in Sub : Active(t)' <=> Active(t)
      BY <2>3, IdleWorker DEF Active
    <3>2. \A t \in Sub : AtFile(t)' => AtFile(t) /\ dosub'[t] = dosub[t]
      BY <2>3, IdleWorker DEF AtFile
    <3>3. \A t \in Sub : dosub'[t].at <= Len(Contents[t]) + 1
      BY <2>3, IdleWorker DEF IInv, SubsPlaced
    <3>4. \A t \in Sub : state'[t] \in {"absent", "new"} => dosub'[t].pc = "none" /\ qsubs'[t] = 0
      BY <2>1, <2>3, IdleWorker DEF IInv, SubsPlaced
    <3> QED BY <1>1, <2>1, <3>1, <3>2, <3>3, <3>4 DEF IInv, SubsPlaced
  <2>6. ResultsOfSubs'
    <3>1. \A k \in DOMAIN subresults' : qsubs'[subresults'[k]] = 1 /\ dosub'[subresults'[k]].pc # "none"
      <4> TAKE k \in DOMAIN subresults'
      <4>1. PICK l \in DOMAIN subresults : subresults'[k] = subresults[l] /\ subresults[l] # s
        BY <2>2
      <4>2. subresults[l] \in Sub /\ qsubs[subresults[l]] = 1 /\ dosub[subresults[l]].pc # "none"
        BY <1>1, <4>1 DEF IInv, ResultsOfSubs
      <4> QED BY <2>3, <4>1, <4>2
    <3>2. (~pool.subs)' => subresults' = <<>>
      <4>1. subresults # <<>>
        BY <1>1
      <4> QED BY <1>1, <4>1 DEF IInv, ResultsOfSubs
    <3> QED BY <1>1, <2>1, <2>2, <3>1, <3>2 DEF IInv, ResultsOfSubs
  <2>7. ImagesNumbered'
    <3>1. \A t \in Sub : dosub'[t] = dosub[t] \/ dosub'[t].pc \notin {"dedup", "link"}
      BY <2>3, IdleWorker
    <3> QED BY <2>1, <3>1, ImagesSame DEF IInv
  <2>8. JobsTyped' /\ JobsPlaced' /\ ResultsOfJobs'
    BY <1>1, <2>1, JobsSame DEF IInv
  <2> QED BY <2>4, <2>5, <2>6, <2>7, <2>8 DEF IInv
<1>4. CASE dosub[s].pc \in {"ready", "raised"} /\ qsubs[s] # 1
  <2>1. Die /\ lost' = TRUE /\ UNCHANGED jobs
    BY <1>4 DEF ScanSub
  <2> QED BY <2>1, DieStep
<1> QED BY <1>2, <1>3, <1>4

LEMMA ScanSubsEndStep == IInv /\ ScanSubsEnd => IInv'
<1> SUFFICES ASSUME IInv, ScanSubsEnd PROVE IInv'
  OBVIOUS
<1>1. /\ UNCHANGED <<state, processing_retries, images, serial, uis, jobs, qsubs, qjobs>>
      /\ UNCHANGED <<pool, newsubs, newuis, subresults, jobresults, starts, lost, dosub, dojob>>
      /\ pc = "scanSubs" /\ pc' = "scanJobs" /\ at' = 1
  BY DEF ScanSubsEnd, database, results
<1>2. SubsTyped' /\ SubsPlaced' /\ ResultsOfSubs'
  BY <1>1, SubsSame DEF IInv
<1>3. ImagesNumbered'
  BY <1>1, ImagesSame DEF IInv
<1>4. JobsTyped' /\ JobsPlaced' /\ ResultsOfJobs'
  BY <1>1, JobsSame DEF IInv
<1> QED BY <1>2, <1>3, <1>4 DEF IInv

LEMMA ScanJobStep == IInv /\ ScanJob => IInv'
<1> SUFFICES ASSUME IInv, ScanJob PROVE IInv'
  OBVIOUS
<1> DEFINE j == jobresults[at]
<1>1. /\ pc = "scanJobs" /\ at \in 1..Len(jobresults) /\ at + 1 \in Nat \ {0}
      /\ jobresults \in Seq(JobId) /\ DOMAIN jobresults = 1..Len(jobresults)
      /\ UNCHANGED <<pool, starts>>
  BY DEF ScanJob, IInv, SubsTyped, JobsTyped
<1>2. CASE dojob[j] \notin {"ready", "raised"}
  <2>1. /\ at' = at + 1
        /\ UNCHANGED <<database, pc, newsubs, newuis, results, lost, dosub, dojob>>
    BY <1>2 DEF ScanJob
  <2>2. SubsTyped' /\ SubsPlaced' /\ ResultsOfSubs'
    BY <1>1, <2>1, SubsSame DEF IInv, database, results
  <2>3. ImagesNumbered'
    BY <2>1, ImagesSame DEF IInv, database
  <2>4. JobsTyped' /\ JobsPlaced' /\ ResultsOfJobs'
    BY <1>1, <2>1, JobsSame DEF IInv, database, results
  <2> QED BY <2>2, <2>3, <2>4 DEF IInv
<1>3. CASE dojob[j] \in {"ready", "raised"} /\ j \in qjobs
  <2>1. /\ jobresults' = RemoveAt(jobresults, at) /\ at' = at + 1
        /\ qjobs' = qjobs \ {j}
        /\ dojob' = Restrict(dojob, {k \in DOMAIN dojob : k # j \/ dojob[k] = "raised"})
        /\ UNCHANGED <<state, processing_retries, images, serial, uis, jobs, qsubs>>
        /\ UNCHANGED <<pc, newsubs, newuis, subresults, lost, dosub>>
    BY <1>3 DEF ScanJob
  <2>2. /\ DOMAIN dojob' = {k \in DOMAIN dojob : k # j \/ dojob[k] = "raised"}
        /\ \A k \in DOMAIN dojob' : dojob'[k] = dojob[k]
    BY <2>1 DEF Restrict
  <2>3. /\ jobresults' \in Seq(JobId) /\ Distinct(jobresults)'
        /\ \A k \in DOMAIN jobresults' : \E l \in DOMAIN jobresults :
             jobresults'[k] = jobresults[l] /\ jobresults[l] # j
    <3>1. Distinct(jobresults)
      BY DEF IInv, ResultsOfJobs
    <3>2. /\ RemoveAt(jobresults, at) \in Seq(JobId) /\ Distinct(RemoveAt(jobresults, at))
          /\ \A k \in DOMAIN RemoveAt(jobresults, at) : \E l \in DOMAIN jobresults :
               RemoveAt(jobresults, at)[k] = jobresults[l] /\ jobresults[l] # jobresults[at]
      BY <1>1, <3>1, RemovedAt, ZenonT(30)
    <3> QED BY <2>1, <3>2 DEF Distinct
  <2>4. SubsTyped' /\ SubsPlaced' /\ ResultsOfSubs'
    BY <1>1, <2>1, SubsSame DEF IInv
  <2>5. ImagesNumbered'
    BY <2>1, ImagesSame DEF IInv
  <2> HIDE DEF j
  <2>6. JobsTyped'
    BY <2>1, <2>2, <2>3 DEF IInv, JobsTyped
  <2>7. JobsPlaced'
    BY <1>1, <1>3, <2>1, <2>2 DEF IInv, JobsPlaced, Past
  <2>8. ResultsOfJobs'
    <3>1. \A k \in DOMAIN jobresults' : jobresults'[k] \in DOMAIN dojob'
      <4> TAKE k \in DOMAIN jobresults'
      <4>1. PICK l \in DOMAIN jobresults : jobresults'[k] = jobresults[l] /\ jobresults[l] # j
        BY <2>3
      <4> QED BY <4>1, <2>2 DEF IInv, ResultsOfJobs
    <3>2. (~pool.jobs)' => jobresults' = <<>>
      <4>1. jobresults # <<>>
        BY <1>1
      <4> QED BY <1>1, <4>1 DEF IInv, ResultsOfJobs
    <3> QED BY <1>1, <2>1, <2>3, <3>1, <3>2 DEF IInv, ResultsOfJobs
  <2> QED BY <2>4, <2>5, <2>6, <2>7, <2>8 DEF IInv
<1>4. CASE dojob[j] \in {"ready", "raised"} /\ j \notin qjobs
  <2>1. Die /\ lost' = TRUE /\ UNCHANGED jobs
    BY <1>4 DEF ScanJob
  <2> QED BY <2>1, DieStep
<1> QED BY <1>2, <1>3, <1>4

LEMMA ScanJobsEndStep == IInv /\ ScanJobsEnd => IInv'
<1> SUFFICES ASSUME IInv, ScanJobsEnd PROVE IInv'
  OBVIOUS
<1>1. /\ UNCHANGED <<state, processing_retries, images, serial, uis, jobs, qsubs, qjobs>>
      /\ UNCHANGED <<pool, subresults, jobresults, starts, lost, dosub, dojob>>
      /\ pc = "scanJobs" /\ pc' \in {"look", "queueSubs"} /\ at' = 1
      /\ newsubs' = NewSubs \/ newsubs' = newsubs
      /\ newuis' = NewImages \/ newuis' = newuis
  BY DEF ScanJobsEnd, database, results
<1>2. newsubs' \subseteq Sub /\ \A s \in newsubs' : state[s] = "new"
  BY <1>1 DEF NewSubs, IInv, SubsTyped, SubsPlaced
<1>3. /\ newuis' \subseteq UserImage
      /\ \A u \in newuis' : Past(u) /\ \A j \in DOMAIN jobs : j.ui # u
  BY <1>1 DEF NewImages, IInv, JobsTyped, JobsPlaced, ImagesNumbered, Past
<1>4. SubsTyped'
  BY <1>1, <1>2 DEF IInv, SubsTyped
<1>5. SubsPlaced'
  BY <1>1, <1>2 DEF IInv, SubsPlaced, Active, AtFile
<1>6. ResultsOfSubs'
  BY <1>1 DEF IInv, ResultsOfSubs, Distinct
<1>7. ImagesNumbered'
  BY <1>1, ImagesSame DEF IInv
<1>8. JobsTyped'
  BY <1>1, <1>3 DEF IInv, JobsTyped
<1>9. JobsPlaced'
  BY <1>1, <1>3 DEF IInv, JobsPlaced, Past
<1>10. ResultsOfJobs'
  BY <1>1 DEF IInv, ResultsOfJobs, Distinct
<1> QED BY <1>4, <1>5, <1>6, <1>7, <1>8, <1>9, <1>10 DEF IInv

LEMMA QueueSubStep ==
  ASSUME NEW s \in Sub
  PROVE  IInv /\ QueueSub(s) => IInv'
<1> SUFFICES ASSUME IInv, QueueSub(s) PROVE IInv'
  OBVIOUS
<1> DEFINE w == [Idle EXCEPT !.pc = "queued"]
<1>1. /\ pc = "queueSubs" /\ s \in newsubs /\ newsubs' = newsubs \ {s}
      /\ state' = [state EXCEPT ![s] = "started"]
      /\ qsubs' = [qsubs EXCEPT ![s] = @ + 1] /\ dosub' = [dosub EXCEPT ![s] = w]
      /\ IF pool.subs THEN subresults' = Append(subresults, s) /\ pc' = pc
                      ELSE pc' = "inSub" /\ subresults' = subresults
      /\ UNCHANGED <<processing_retries, images, serial, uis, jobs, qjobs>>
      /\ UNCHANGED <<pool, newuis, jobresults, at, starts, lost, dojob>>
  BY DEF QueueSub
<1>2. state[s] = "new" /\ dosub[s].pc = "none" /\ qsubs[s] = 0
  BY <1>1 DEF IInv, SubsPlaced
<1>3. w \in Worker /\ w.pc = "queued" /\ w.at = 1
  BY DEF Idle, Worker
<1> HIDE DEF w
<1>4. /\ state'[s] = "started" /\ qsubs'[s] = 1 /\ dosub'[s] = w
      /\ \A t \in Sub : t # s =>
           state'[t] = state[t] /\ qsubs'[t] = qsubs[t] /\ dosub'[t] = dosub[t]
      /\ state' \in [Sub -> {"absent", "new", "started", "finished", "failed"}]
      /\ qsubs' \in [Sub -> Nat] /\ dosub' \in [Sub -> Worker]
  BY <1>1, <1>2, <1>3 DEF IInv, SubsTyped
<1>5. subresults \in Seq(Sub) /\ \A k \in DOMAIN subresults : subresults[k] # s
  BY <1>2 DEF IInv, SubsTyped, ResultsOfSubs
<1>6. /\ subresults' \in Seq(Sub) /\ Distinct(subresults)'
      /\ \A k \in DOMAIN subresults' :
           subresults'[k] = s \/ \E l \in DOMAIN subresults : subresults'[k] = subresults[l]
      /\ ~pool.subs => subresults' = <<>>
  <2>1. Distinct(subresults) /\ (~pool.subs => subresults = <<>>)
    BY DEF IInv, ResultsOfSubs
  <2>2. /\ Append(subresults, s) \in Seq(Sub) /\ Distinct(Append(subresults, s))
        /\ \A l \in DOMAIN Append(subresults, s) :
             Append(subresults, s)[l] = s
               \/ \E m \in DOMAIN subresults : Append(subresults, s)[l] = subresults[m]
    BY <1>5, <2>1, AppendedTo
  <2>3. CASE pool.subs
    BY <1>1, <2>2, <2>3 DEF Distinct
  <2>4. CASE ~pool.subs
    BY <1>1, <1>5, <2>1, <2>4 DEF Distinct
  <2> QED BY <2>3, <2>4
<1>7. pc' \in {"queueSubs", "inSub"} /\ (pc' = "inSub" => ~pool'.subs)
  BY <1>1
<1>8. SubsTyped'
  BY <1>1, <1>4, <1>6, <1>7 DEF IInv, SubsTyped
<1>9. SubsPlaced'
  <2>1. ASSUME NEW t \in Sub
        PROVE  /\ dosub'[t].at <= Len(Contents[t]) + 1
               /\ AtFile(t)' => dosub'[t].at <= Len(Contents[t])
               /\ state'[t] \in {"absent", "new"} => dosub'[t].pc = "none" /\ qsubs'[t] = 0
               /\ state'[t] = "started" <=> Active(t)'
               /\ t \in newsubs' => state'[t] = "new"
    <3>1. CASE t = s
      BY <3>1, <1>1, <1>3, <1>4, IdleWorker DEF AtFile, Active
    <3>2. CASE t # s
      BY <3>2, <1>1, <1>4 DEF AtFile, Active, IInv, SubsPlaced
    <3> QED BY <3>1, <3>2
  <2> QED BY <2>1, <1>7 DEF SubsPlaced
<1>10. ResultsOfSubs'
  <2>1. \A k \in DOMAIN subresults' : qsubs'[subresults'[k]] = 1 /\ dosub'[subresults'[k]].pc # "none"
    <3> TAKE k \in DOMAIN subresults'
    <3>1. CASE subresults'[k] = s
      BY <3>1, <1>3, <1>4
    <3>2. CASE subresults'[k] # s
      <4>1. PICK l \in DOMAIN subresults : subresults'[k] = subresults[l]
        BY <1>6, <3>2
      <4>2. subresults[l] \in Sub
        BY <1>5
      <4> QED BY <3>2, <4>1, <4>2, <1>4 DEF IInv, ResultsOfSubs
    <3> QED BY <3>1, <3>2
  <2> QED BY <2>1, <1>1, <1>6, <1>7 DEF ResultsOfSubs
<1>11. ImagesNumbered'
  <2>1. \A t \in Sub : dosub'[t] = dosub[t] \/ dosub'[t].pc \notin {"dedup", "link"}
    BY <1>3, <1>4
  <2> QED BY <1>1, <2>1, ImagesSame DEF IInv
<1>12. JobsTyped' /\ JobsPlaced' /\ ResultsOfJobs'
  BY <1>1, <1>7, JobsSame DEF IInv
<1> QED BY <1>8, <1>9, <1>10, <1>11, <1>12 DEF IInv

LEMMA InlineSubDoneStep ==
  ASSUME NEW s \in Sub
  PROVE  IInv /\ InlineSubDone(s) => IInv'
<1> SUFFICES ASSUME IInv, InlineSubDone(s) PROVE IInv'
  OBVIOUS
<1>1. /\ pc = "inSub" /\ dosub[s].pc = "ready" /\ pc' = "queueSubs"
      /\ dosub' = [dosub EXCEPT ![s] = Idle]
      /\ UNCHANGED <<state, processing_retries, images, serial, uis, jobs, qsubs, qjobs>>
      /\ UNCHANGED <<pool, newsubs, newuis, subresults, jobresults, at, starts, lost, dojob>>
  BY DEF InlineSubDone, database, results
<1>2. subresults = <<>> /\ DOMAIN subresults = {}
  BY <1>1 DEF IInv, ResultsOfSubs
<1>3. /\ dosub'[s] = Idle /\ \A t \in Sub : t # s => dosub'[t] = dosub[t]
      /\ dosub' \in [Sub -> Worker]
  BY <1>1, IdleWorker DEF IInv, SubsTyped
<1>4. SubsTyped'
  BY <1>1, <1>3 DEF IInv, SubsTyped
<1>5. SubsPlaced'
  <2>1. \A t \in Sub : Active(t)' <=> Active(t)
    BY <1>1, <1>3, IdleWorker DEF Active
  <2>2. \A t \in Sub : AtFile(t)' => AtFile(t) /\ dosub'[t] = dosub[t]
    BY <1>1, <1>3, IdleWorker DEF AtFile
  <2>3. \A t \in Sub : dosub'[t].at <= Len(Contents[t]) + 1
    BY <1>3, IdleWorker DEF IInv, SubsPlaced
  <2>4. \A t \in Sub : state'[t] \in {"absent", "new"} => dosub'[t].pc = "none" /\ qsubs'[t] = 0
    BY <1>1, <1>3, IdleWorker DEF IInv, SubsPlaced
  <2> QED BY <1>1, <2>1, <2>2, <2>3, <2>4 DEF IInv, SubsPlaced
<1>6. ResultsOfSubs'
  BY <1>1, <1>2 DEF ResultsOfSubs, Distinct
<1>7. ImagesNumbered'
  <2>1. \A t \in Sub : dosub'[t] = dosub[t] \/ dosub'[t].pc \notin {"dedup", "link"}
    BY <1>3, IdleWorker
  <2> QED BY <1>1, <2>1, ImagesSame DEF IInv
<1>8. JobsTyped' /\ JobsPlaced' /\ ResultsOfJobs'
  BY <1>1, JobsSame DEF IInv
<1> QED BY <1>4, <1>5, <1>6, <1>7, <1>8 DEF IInv

\* The main loop goes from the submissions to the jobs, and from the jobs to the look.
LEMMA QueuedStep == IInv /\ (SubsQueued \/ JobsQueued) => IInv'
<1> SUFFICES ASSUME IInv, SubsQueued \/ JobsQueued PROVE IInv'
  OBVIOUS
<1>1. /\ UNCHANGED <<state, processing_retries, images, serial, uis, jobs, qsubs, qjobs>>
      /\ UNCHANGED <<pool, newsubs, newuis, subresults, jobresults, at, starts, lost, dosub, dojob>>
      /\ pc \in {"queueSubs", "queueJobs"} /\ pc' \in {"queueJobs", "look"}
  BY DEF SubsQueued, JobsQueued, database, results
<1>2. SubsTyped' /\ SubsPlaced' /\ ResultsOfSubs'
  BY <1>1, SubsSame DEF IInv, SubsTyped
<1>3. ImagesNumbered'
  BY <1>1, ImagesSame DEF IInv
<1>4. JobsTyped' /\ JobsPlaced' /\ ResultsOfJobs'
  BY <1>1, JobsSame DEF IInv
<1> QED BY <1>2, <1>3, <1>4 DEF IInv

LEMMA QueueJobStep ==
  ASSUME NEW u \in newuis
  PROVE  IInv /\ QueueJob(u) => IInv'
<1> SUFFICES ASSUME IInv, QueueJob(u) PROVE IInv'
  OBVIOUS
<1>1. CASE u \in uis
  <2> DEFINE j == [ui |-> u, n |-> Cardinality({k \in DOMAIN jobs : k.ui = u}) + 1]
  <2>1. /\ pc = "queueJobs" /\ newuis' = newuis \ {u} /\ jobs' = Write(jobs, j, "queued")
        /\ qjobs' = qjobs \cup {j} /\ dojob' = Write(dojob, j, "queued")
        /\ IF pool.jobs THEN jobresults' = Append(jobresults, j) /\ pc' = pc
                        ELSE pc' = "inJob" /\ jobresults' = jobresults
        /\ UNCHANGED <<state, processing_retries, images, serial, uis, qsubs, pool>>
        /\ UNCHANGED <<newsubs, subresults, at, starts, lost, dosub>>
    BY <1>1 DEF QueueJob
  <2>2. {k \in DOMAIN jobs : k.ui = u} = {}
    BY DEF IInv, JobsPlaced
  <2>3. u \in UserImage /\ j \in JobId /\ j.ui = u
    <3>1. u \in UserImage
      BY DEF IInv, JobsTyped
    <3>2. Cardinality({k \in DOMAIN jobs : k.ui = u}) = 0
      BY <2>2, FS_EmptySet, Zenon
    <3> QED BY <3>1, <3>2 DEF JobId
  <2> HIDE DEF j
  <2>4. j \notin DOMAIN jobs /\ j \notin DOMAIN dojob
    BY <1>1, <2>2, <2>3 DEF IInv, JobsPlaced
  <2>5. /\ DOMAIN jobs' = DOMAIN jobs \cup {j} /\ jobs'[j] = "queued"
        /\ \A k \in DOMAIN jobs : jobs'[k] = jobs[k]
        /\ DOMAIN dojob' = DOMAIN dojob \cup {j} /\ dojob'[j] = "queued"
        /\ \A k \in DOMAIN dojob : dojob'[k] = dojob[k]
    BY <2>1, <2>4 DEF Write
  <2>6. jobresults \in Seq(JobId) /\ \A k \in DOMAIN jobresults : jobresults[k] # j
    BY <2>4 DEF IInv, JobsTyped, ResultsOfJobs
  <2>7. /\ jobresults' \in Seq(JobId) /\ Distinct(jobresults)'
        /\ \A k \in DOMAIN jobresults' :
             jobresults'[k] = j \/ \E l \in DOMAIN jobresults : jobresults'[k] = jobresults[l]
        /\ ~pool.jobs => jobresults' = <<>>
    <3>1. Distinct(jobresults) /\ (~pool.jobs => jobresults = <<>>)
      BY DEF IInv, ResultsOfJobs
    <3>2. /\ Append(jobresults, j) \in Seq(JobId) /\ Distinct(Append(jobresults, j))
          /\ \A l \in DOMAIN Append(jobresults, j) :
               Append(jobresults, j)[l] = j
                 \/ \E m \in DOMAIN jobresults : Append(jobresults, j)[l] = jobresults[m]
      BY <2>3, <2>6, <3>1, AppendedTo
    <3>3. CASE pool.jobs
      BY <2>1, <3>2, <3>3 DEF Distinct
    <3>4. CASE ~pool.jobs
      BY <2>1, <2>6, <3>1, <3>4 DEF Distinct
    <3> QED BY <3>3, <3>4
  <2>8. pc' \in {"queueJobs", "inJob"} /\ (pc' = "inJob" => ~pool'.jobs)
    BY <2>1
  <2>9. SubsTyped' /\ SubsPlaced' /\ ResultsOfSubs'
    BY <2>1, <2>8, SubsSame DEF IInv, SubsTyped
  <2>10. ImagesNumbered'
    BY <2>1, ImagesSame DEF IInv
  <2>11. JobsTyped'
    <3>1. \A k \in DOMAIN jobs' :
            k \in JobId /\ k.ui \in uis' /\ jobs'[k] \in {"queued", "started", "ended"}
      BY <1>1, <2>1, <2>3, <2>5 DEF IInv, JobsTyped
    <3>2. \A k \in DOMAIN dojob' :
            k \in JobId /\ dojob'[k] \in {"queued", "run", "ready", "raised"}
      BY <2>3, <2>5 DEF IInv, JobsTyped
    <3>3. qjobs' \subseteq DOMAIN jobs' /\ newuis' \subseteq UserImage
      BY <2>1, <2>5 DEF IInv, JobsTyped
    <3> QED BY <2>7, <3>1, <3>2, <3>3 DEF JobsTyped
  <2>12. JobsPlaced'
    <3>1. \A k, l \in DOMAIN jobs' : k.ui = l.ui => k = l
      BY <2>2, <2>3, <2>5 DEF IInv, JobsPlaced
    <3>2. \A k \in DOMAIN jobs' : jobs'[k] # "ended" => k \in DOMAIN dojob' /\ dojob'[k] # "ready"
      BY <2>1, <2>5 DEF IInv, JobsPlaced
    <3>3. \A k \in DOMAIN dojob' : Past(k.ui)' /\ (k.ui \in uis' => k \in DOMAIN jobs')
      BY <1>1, <2>1, <2>3, <2>5 DEF IInv, JobsPlaced, Past
    <3>4. \A v \in newuis' : Past(v)' /\ \A k \in DOMAIN jobs' : k.ui # v
      BY <2>1, <2>3, <2>5 DEF IInv, JobsPlaced, Past
    <3> QED BY <2>8, <3>1, <3>2, <3>3, <3>4 DEF JobsPlaced
  <2>13. ResultsOfJobs'
    <3>1. \A k \in DOMAIN jobresults' : jobresults'[k] \in DOMAIN dojob'
      BY <2>5, <2>7 DEF IInv, ResultsOfJobs
    <3> QED BY <2>1, <2>7, <2>8, <3>1 DEF ResultsOfJobs
  <2> QED BY <2>9, <2>10, <2>11, <2>12, <2>13 DEF IInv
<1>2. CASE u \notin uis
  <2>1. Die /\ lost' = TRUE /\ UNCHANGED jobs
    BY <1>2 DEF QueueJob
  <2> QED BY <2>1, DieStep
<1> QED BY <1>1, <1>2

LEMMA InlineJobDoneStep == IInv /\ InlineJobDone => IInv'
<1> SUFFICES ASSUME IInv, InlineJobDone PROVE IInv'
  OBVIOUS
<1>1. /\ pc = "inJob" /\ pc' = "queueJobs" /\ dojob' = <<>>
      /\ \A j \in DOMAIN dojob : dojob[j] = "ready"
      /\ UNCHANGED <<state, processing_retries, images, serial, uis, jobs, qsubs, qjobs>>
      /\ UNCHANGED <<pool, newsubs, newuis, subresults, jobresults, at, starts, lost, dosub>>
  BY DEF InlineJobDone, database, results
<1>2. DOMAIN dojob' = {}
  BY <1>1
<1>3. jobresults = <<>> /\ DOMAIN jobresults = {}
  BY <1>1 DEF IInv, ResultsOfJobs
<1>4. SubsTyped' /\ SubsPlaced' /\ ResultsOfSubs'
  BY <1>1, SubsSame DEF IInv, SubsTyped
<1>5. ImagesNumbered'
  BY <1>1, ImagesSame DEF IInv
<1>6. JobsTyped'
  BY <1>1, <1>2 DEF IInv, JobsTyped
<1>7. JobsPlaced'
  BY <1>1, <1>2 DEF IInv, JobsPlaced, Past
<1>8. ResultsOfJobs'
  BY <1>1, <1>3 DEF ResultsOfJobs, Distinct
<1> QED BY <1>4, <1>5, <1>6, <1>7, <1>8 DEF IInv

-----------------------------------------------------------------------------
(* The workers of jobs. *)

LEMMA SaveJobStep ==
  ASSUME NEW j \in DOMAIN dojob, NEW row \in {"started", "ended"},
         NEW next \in {"run", "ready", "raised"}, next = "ready" => row = "ended"
  PROVE  IInv /\ SaveJob(j, row, next) => IInv'
<1> SUFFICES ASSUME IInv, SaveJob(j, row, next) PROVE IInv'
  OBVIOUS
<1>1. /\ UNCHANGED <<state, processing_retries, images, serial, uis, qsubs, qjobs, dosub>>
      /\ UNCHANGED <<pc, pool, newsubs, newuis, subresults, jobresults, at, starts, lost>>
  BY DEF SaveJob, JobRest, main, results
<1>2. /\ j \in DOMAIN jobs
      /\ DOMAIN jobs' = DOMAIN jobs /\ \A k \in DOMAIN jobs : k # j => jobs'[k] = jobs[k]
      /\ jobs'[j] = row /\ dojob'[j] = next
      /\ DOMAIN dojob' = DOMAIN dojob /\ \A k \in DOMAIN dojob : k # j => dojob'[k] = dojob[k]
  BY DEF SaveJob, Write
<1>3. SubsTyped' /\ SubsPlaced' /\ ResultsOfSubs'
  BY <1>1, SubsSame DEF IInv, SubsTyped
<1>4. ImagesNumbered'
  BY <1>1, ImagesSame DEF IInv
<1>5. JobsTyped'
  BY <1>1, <1>2 DEF IInv, JobsTyped
<1>6. JobsPlaced'
  <2>1. \A k \in DOMAIN jobs' : pc' # "down" /\ jobs'[k] # "ended" =>
          k \in DOMAIN dojob' /\ dojob'[k] # "ready"
    BY <1>1, <1>2 DEF IInv, JobsPlaced
  <2> QED BY <2>1, <1>1, <1>2 DEF IInv, JobsPlaced, Past
<1>7. ResultsOfJobs'
  BY <1>1, <1>2 DEF IInv, ResultsOfJobs, Distinct
<1> QED BY <1>3, <1>4, <1>5, <1>6, <1>7 DEF IInv

LEMMA RaiseJobStep ==
  ASSUME NEW j \in DOMAIN dojob
  PROVE  IInv /\ RaiseJob(j) => IInv'
<1> SUFFICES ASSUME IInv, RaiseJob(j) PROVE IInv'
  OBVIOUS
<1>1. /\ UNCHANGED <<state, processing_retries, images, serial, uis, jobs, qsubs, qjobs, dosub>>
      /\ UNCHANGED <<pc, pool, newsubs, newuis, subresults, jobresults, at, starts, lost>>
  BY DEF RaiseJob, JobRest, main, results
<1>2. /\ dojob'[j] = "raised" /\ DOMAIN dojob' = DOMAIN dojob
      /\ \A k \in DOMAIN dojob : k # j => dojob'[k] = dojob[k]
  BY DEF RaiseJob, Write
<1>3. SubsTyped' /\ SubsPlaced' /\ ResultsOfSubs'
  BY <1>1, SubsSame DEF IInv, SubsTyped
<1>4. ImagesNumbered'
  BY <1>1, ImagesSame DEF IInv
<1>5. JobsTyped'
  BY <1>1, <1>2 DEF IInv, JobsTyped
<1>6. JobsPlaced'
  BY <1>1, <1>2 DEF IInv, JobsPlaced, Past
<1>7. ResultsOfJobs'
  BY <1>1, <1>2 DEF IInv, ResultsOfJobs, Distinct
<1> QED BY <1>3, <1>4, <1>5, <1>6, <1>7 DEF IInv

LEMMA JobStepStep ==
  ASSUME NEW j \in DOMAIN dojob
  PROVE  IInv /\ JobStep(j) => IInv'
<1> SUFFICES ASSUME IInv, JobStep(j) PROVE IInv'
  OBVIOUS
<1>1. CASE BeginJob(j)
  BY <1>1, SaveJobStep DEF BeginJob
<1>2. CASE EndJob(j)
  BY <1>2, SaveJobStep DEF EndJob
<1>3. CASE CatchJob(j)
  BY <1>3, SaveJobStep DEF CatchJob
<1>4. CASE RaiseJob(j)
  BY <1>4, RaiseJobStep
<1> QED BY <1>1, <1>2, <1>3, <1>4 DEF JobStep

-----------------------------------------------------------------------------
(* The workers of submissions. *)

LEMMA AtWork ==
  ASSUME IInv, NEW s \in Sub, Active(s)
  PROVE  /\ pc # "down" /\ state[s] = "started" /\ state = [state EXCEPT ![s] = "started"]
         /\ dosub[s] \in Worker /\ dosub[s].at \in Nat \ {0}
         /\ dosub[s].at <= Len(Contents[s]) + 1
<1>1. pc # "down" /\ state[s] = "started" /\ dosub[s].at <= Len(Contents[s]) + 1
  BY DEF IInv, SubsPlaced, Active
<1>2. dosub[s] \in Worker /\ dosub[s].at \in Nat \ {0}
  BY DEF IInv, SubsTyped, Worker
<1>3. state = [state EXCEPT ![s] = "started"]
  BY <1>1 DEF IInv, SubsTyped
<1> QED BY <1>1, <1>2, <1>3

LEMMA FileTyped ==
  ASSUME IInv, NEW s \in Sub, dosub[s].at <= Len(Contents[s])
  PROVE  FileOf(s) \in File /\ dosub[s].at \in DOMAIN Contents[s]
<1>1. dosub[s] \in Worker /\ dosub[s].at \in Nat \ {0}
  BY DEF IInv, SubsTyped, Worker
<1>2. Contents[s] \in Seq(File)
  BY PipelineAssumption
<1> QED BY <1>1, <1>2 DEF FileOf

\* The worker may hold an Image of its file that is there.
LEMMA WorkerImage ==
  ASSUME IInv, NEW s \in Sub, NEW w \in Worker, dosub' = [dosub EXCEPT ![s] = w],
         UNCHANGED <<serial, images, uis>>,
         w.pc \in {"dedup", "link"} => w.image \in images /\ w.image.file = Contents[s][w.at]
  PROVE  ImagesNumbered'
<1>1. /\ dosub'[s] = w /\ \A t \in Sub : t # s => dosub'[t] = dosub[t]
  BY DEF IInv, SubsTyped
<1>2. ASSUME NEW t \in Sub, dosub'[t].pc \in {"dedup", "link"}
      PROVE  /\ dosub'[t].image \in Image /\ dosub'[t].image.file = Contents[t][dosub'[t].at]
             /\ dosub'[t].image.n <= serial'[Contents[t][dosub'[t].at]]
  <2>1. CASE t = s
    <3>1. w.image \in images /\ w.image.file = Contents[s][w.at]
      BY <1>1, <1>2, <2>1
    <3>2. w.image \in Image /\ w.image.n <= serial[w.image.file]
      BY <3>1 DEF IInv, ImagesNumbered
    <3> QED BY <1>1, <2>1, <3>1, <3>2
  <2>2. CASE t # s
    BY <1>1, <1>2, <2>2 DEF IInv, ImagesNumbered, FileOf
  <2> QED BY <2>1, <2>2
<1>3. \A u \in uis' : u.image \in images' /\ u.n \in 1..Cardinality(Numbers(u.sub, u.image)')
  BY DEF IInv, ImagesNumbered, Numbers
<1> QED BY <1>2, <1>3 DEF IInv, ImagesNumbered, FileOf

LEMMA BeginSubStep ==
  ASSUME NEW s \in Sub
  PROVE  IInv /\ BeginSub(s) => IInv'
<1> SUFFICES ASSUME IInv, BeginSub(s) PROVE IInv'
  OBVIOUS
<1> DEFINE w == [dosub[s] EXCEPT !.pc = "file"]
<1>1. /\ dosub[s].pc = "queued" /\ state' = [state EXCEPT ![s] = "started"]
      /\ dosub' = [dosub EXCEPT ![s] = w]
      /\ UNCHANGED <<processing_retries, images, serial, uis, jobs, qsubs, qjobs, dojob>>
      /\ UNCHANGED <<pc, pool, newsubs, newuis, subresults, jobresults, at, starts, lost>>
  BY DEF BeginSub, SubRest, main, results, IInv, SubsTyped
<1>2. Active(s)
  BY <1>1 DEF Active
<1>3. w \in Worker /\ w.pc = "file" /\ w.at <= Len(Contents[s]) + 1
  BY <1>2, AtWork DEF Worker
<1> HIDE DEF w
<1>4. SubsTyped' /\ SubsPlaced' /\ ResultsOfSubs'
  BY <1>1, <1>2, <1>3, WorkerSub DEF IInv, SubsTyped
<1>5. ImagesNumbered'
  BY <1>1, <1>3, WorkerImage
<1>6. JobsTyped' /\ JobsPlaced' /\ ResultsOfJobs'
  BY <1>1, JobsSame DEF IInv
<1> QED BY <1>4, <1>5, <1>6 DEF IInv

LEMMA LookupStep ==
  ASSUME NEW s \in Sub
  PROVE  IInv /\ Lookup(s) => IInv'
<1> SUFFICES ASSUME IInv, Lookup(s) PROVE IInv'
  OBVIOUS
<1>1. /\ dosub[s].pc = "file" /\ dosub[s].at <= Len(Contents[s])
      /\ UNCHANGED <<state, processing_retries, images, serial, uis, jobs, qsubs, qjobs, dojob>>
      /\ UNCHANGED <<pc, pool, newsubs, newuis, subresults, jobresults, at, starts, lost>>
  BY DEF Lookup, SubRest, main, results
<1>2. Active(s)
  BY <1>1 DEF Active
<1>3. /\ dosub[s] \in Worker /\ dosub[s].at <= Len(Contents[s]) + 1
      /\ state' = [state EXCEPT ![s] = "started"]
  BY <1>1, <1>2, AtWork
<1>4. PICK w \in Worker :
        /\ dosub' = [dosub EXCEPT ![s] = w] /\ w.at = dosub[s].at
        /\ w.pc \in {"create", "fetch", "link"}
        /\ w.pc = "link" => w.image \in images /\ w.image.file = Contents[s][w.at]
  <2>1. ASSUME NEW p \in {"create", "fetch"}, dosub' = [dosub EXCEPT ![s].pc = p]
        PROVE  \E w \in Worker : /\ dosub' = [dosub EXCEPT ![s] = w] /\ w.at = dosub[s].at
                                 /\ w.pc = p
    <3> DEFINE w == [dosub[s] EXCEPT !.pc = p]
    <3>1. dosub' = [dosub EXCEPT ![s] = w]
      BY <2>1 DEF IInv, SubsTyped
    <3>2. w \in Worker /\ w.at = dosub[s].at /\ w.pc = p
      BY <1>3 DEF Worker
    <3> QED BY <3>1, <3>2
  <2>2. ASSUME NEW i \in ImagesOf(s), dosub' = [dosub EXCEPT ![s].pc = "link", ![s].image = i]
        PROVE  \E w \in Worker : /\ dosub' = [dosub EXCEPT ![s] = w] /\ w.at = dosub[s].at
                                 /\ w.pc = "link" /\ w.image \in images
                                 /\ w.image.file = Contents[s][w.at]
    <3> DEFINE w == [dosub[s] EXCEPT !.pc = "link", !.image = i]
    <3>1. i \in images /\ i.file = FileOf(s) /\ i \in Image
      BY DEF ImagesOf, IInv, ImagesNumbered
    <3>2. dosub' = [dosub EXCEPT ![s] = w]
      BY <2>2 DEF IInv, SubsTyped
    <3>3. w \in Worker /\ w.at = dosub[s].at /\ w.pc = "link" /\ w.image = i
      BY <1>3, <3>1 DEF Worker
    <3> HIDE DEF w
    <3> QED BY <3>1, <3>2, <3>3 DEF FileOf
  <2>3. \/ \E p \in {"create", "fetch"} : dosub' = [dosub EXCEPT ![s].pc = p]
        \/ \E i \in ImagesOf(s) : dosub' = [dosub EXCEPT ![s].pc = "link", ![s].image = i]
    BY DEF Lookup
  <2> QED BY <2>1, <2>2, <2>3
<1>5. SubsTyped' /\ SubsPlaced' /\ ResultsOfSubs'
  BY <1>1, <1>2, <1>3, <1>4, WorkerSub DEF IInv, SubsTyped
<1>6. ImagesNumbered'
  BY <1>1, <1>4, WorkerImage
<1>7. JobsTyped' /\ JobsPlaced' /\ ResultsOfJobs'
  BY <1>1, JobsSame DEF IInv
<1> QED BY <1>5, <1>6, <1>7 DEF IInv

LEMMA FetchImagesStep ==
  ASSUME NEW s \in Sub
  PROVE  IInv /\ FetchImages(s) => IInv'
<1> SUFFICES ASSUME IInv, FetchImages(s) PROVE IInv'
  OBVIOUS
<1>1. /\ dosub[s].pc = "fetch"
      /\ UNCHANGED <<state, processing_retries, images, serial, uis, jobs, qsubs, qjobs, dojob>>
      /\ UNCHANGED <<pc, pool, newsubs, newuis, subresults, jobresults, at, starts, lost>>
  BY DEF FetchImages, SubRest, main, results
<1>2. Active(s) /\ dosub[s].at <= Len(Contents[s])
  BY <1>1 DEF Active, AtFile, IInv, SubsPlaced
<1>3. /\ dosub[s] \in Worker /\ dosub[s].at <= Len(Contents[s]) + 1
      /\ state' = [state EXCEPT ![s] = "started"]
  BY <1>1, <1>2, AtWork
<1>4. PICK i \in ImagesOf(s), p \in {"link", "dedup"}, o \in SUBSET Image :
        dosub' = [dosub EXCEPT ![s].image = i, ![s].others = o, ![s].pc = p]
  <2>1. PICK i \in ImagesOf(s) :
          dosub' = [dosub EXCEPT ![s].image = i, ![s].others = ImagesOf(s) \ {i},
                                 ![s].pc = IF ImagesOf(s) = {i} THEN "link" ELSE "dedup"]
    BY DEF FetchImages
  <2>2. ImagesOf(s) \ {i} \in SUBSET Image
    BY DEF ImagesOf, IInv, ImagesNumbered
  <2> QED BY <2>1, <2>2
<1>5. i \in images /\ i.file = FileOf(s) /\ i \in Image
  BY DEF ImagesOf, IInv, ImagesNumbered
<1> DEFINE w == [dosub[s] EXCEPT !.image = i, !.others = o, !.pc = p]
<1>6. dosub' = [dosub EXCEPT ![s] = w]
  BY <1>4 DEF IInv, SubsTyped
<1>7. w \in Worker /\ w.at = dosub[s].at /\ w.pc = p /\ w.image = i
  BY <1>3, <1>5 DEF Worker
<1> HIDE DEF w
<1>8. SubsTyped' /\ SubsPlaced' /\ ResultsOfSubs'
  BY <1>1, <1>2, <1>3, <1>6, <1>7, WorkerSub DEF IInv, SubsTyped
<1>9. ImagesNumbered'
  BY <1>1, <1>5, <1>6, <1>7, WorkerImage DEF FileOf
<1>10. JobsTyped' /\ JobsPlaced' /\ ResultsOfJobs'
  BY <1>1, JobsSame DEF IInv
<1> QED BY <1>8, <1>9, <1>10 DEF IInv

LEMMA FinishedStep ==
  ASSUME NEW s \in Sub, NEW how \in {"finished", "failed"}
  PROVE  IInv /\ Active(s) /\ Finished(s, how) /\ UNCHANGED SubRest => IInv'
<1> SUFFICES ASSUME IInv, Active(s), Finished(s, how), UNCHANGED SubRest PROVE IInv'
  OBVIOUS
<1> DEFINE w == [Idle EXCEPT !.pc = "ready"]
<1>1. /\ state' = [state EXCEPT ![s] = how] /\ dosub' = [dosub EXCEPT ![s] = w]
      /\ UNCHANGED <<processing_retries, images, serial, uis, jobs, qsubs, qjobs, dojob>>
      /\ UNCHANGED <<pc, pool, newsubs, newuis, subresults, jobresults, at, starts, lost>>
  BY DEF Finished, SubRest, main, results
<1>2. w \in Worker /\ w.pc = "ready" /\ w.at = 1
  BY DEF Idle, Worker
<1> HIDE DEF w
<1>3. w.at <= Len(Contents[s]) + 1 /\ how # "started"
  BY <1>2, IdleWorker
<1>4. SubsTyped' /\ SubsPlaced' /\ ResultsOfSubs'
  BY <1>1, <1>2, <1>3, WorkerSub DEF IInv, SubsTyped
<1>5. ImagesNumbered'
  BY <1>1, <1>2, WorkerImage
<1>6. JobsTyped' /\ JobsPlaced' /\ ResultsOfJobs'
  BY <1>1, JobsSame DEF IInv
<1> QED BY <1>4, <1>5, <1>6 DEF IInv

LEMMA RaiseStep ==
  ASSUME NEW s \in Sub
  PROVE  IInv /\ Active(s) /\ Raise(s) /\ UNCHANGED SubRest => IInv'
<1> SUFFICES ASSUME IInv, Active(s), Raise(s), UNCHANGED SubRest PROVE IInv'
  OBVIOUS
<1> DEFINE w == [Idle EXCEPT !.pc = "raised"]
<1>1. /\ dosub' = [dosub EXCEPT ![s] = w]
      /\ UNCHANGED <<state, processing_retries, images, serial, uis, jobs, qsubs, qjobs, dojob>>
      /\ UNCHANGED <<pc, pool, newsubs, newuis, subresults, jobresults, at, starts, lost>>
  BY DEF Raise, SubRest, main, results
<1>2. w \in Worker /\ w.pc = "raised" /\ w.at = 1
  BY DEF Idle, Worker
<1> HIDE DEF w
<1>3. w.at <= Len(Contents[s]) + 1 /\ state' = [state EXCEPT ![s] = "started"]
  BY <1>1, <1>2, IdleWorker, AtWork
<1>4. SubsTyped' /\ SubsPlaced' /\ ResultsOfSubs'
  BY <1>1, <1>2, <1>3, WorkerSub DEF IInv, SubsTyped
<1>5. ImagesNumbered'
  BY <1>1, <1>2, WorkerImage
<1>6. JobsTyped' /\ JobsPlaced' /\ ResultsOfJobs'
  BY <1>1, JobsSame DEF IInv
<1> QED BY <1>4, <1>5, <1>6 DEF IInv

LEMMA DatabaseErrorStep ==
  ASSUME NEW s \in Sub
  PROVE  IInv /\ Active(s) /\ DatabaseError(s) /\ UNCHANGED SubRest => IInv'
<1> SUFFICES ASSUME IInv, Active(s), DatabaseError(s), UNCHANGED SubRest PROVE IInv'
  OBVIOUS
<1>1. CASE Finished(s, "failed")
  BY <1>1, FinishedStep
<1>2. CASE Raise(s)
  BY <1>2, RaiseStep
<1>3. CASE ~Finished(s, "failed") /\ ~Raise(s)
  <2> DEFINE w == [Idle EXCEPT !.pc = "queued"]
  <2>1. /\ processing_retries[s] < max_sub_retries
        /\ processing_retries' = [processing_retries EXCEPT ![s] = @ + 1]
        /\ dosub' = [dosub EXCEPT ![s] = w]
        /\ UNCHANGED <<state, images, serial, uis, jobs, qsubs, qjobs, dojob>>
        /\ UNCHANGED <<pc, pool, newsubs, newuis, subresults, jobresults, at, starts, lost>>
    BY <1>3 DEF DatabaseError, SubRest, main, results
  <2>2. w \in Worker /\ w.pc = "queued" /\ w.at = 1
    BY DEF Idle, Worker
  <2> HIDE DEF w
  <2>3. w.at <= Len(Contents[s]) + 1 /\ state' = [state EXCEPT ![s] = "started"]
    BY <2>1, <2>2, IdleWorker, AtWork
  <2>4. processing_retries' \in [Sub -> 0..max_sub_retries]
    BY <2>1, PipelineAssumption DEF IInv, SubsTyped
  <2>5. SubsTyped' /\ SubsPlaced' /\ ResultsOfSubs'
    BY <2>1, <2>2, <2>3, <2>4, WorkerSub DEF IInv
  <2>6. ImagesNumbered'
    BY <2>1, <2>2, WorkerImage
  <2>7. JobsTyped' /\ JobsPlaced' /\ ResultsOfJobs'
    BY <2>1, JobsSame DEF IInv
  <2> QED BY <2>5, <2>6, <2>7 DEF IInv
<1> QED BY <1>1, <1>2, <1>3

LEMMA CreateImageStep ==
  ASSUME NEW s \in Sub
  PROVE  IInv /\ CreateImage(s) => IInv'
<1> SUFFICES ASSUME IInv, CreateImage(s) PROVE IInv'
  OBVIOUS
<1> DEFINE i == [file |-> FileOf(s), n |-> serial[FileOf(s)] + 1]
           w == [dosub[s] EXCEPT !.pc = "link", !.image = i]
<1>1. /\ dosub[s].pc = "create" /\ serial' = [serial EXCEPT ![FileOf(s)] = @ + 1]
      /\ images' = images \cup {i} /\ dosub' = [dosub EXCEPT ![s] = w]
      /\ UNCHANGED <<state, processing_retries, uis, jobs, qsubs, qjobs, dojob>>
      /\ UNCHANGED <<pc, pool, newsubs, newuis, subresults, jobresults, at, starts, lost>>
  BY DEF CreateImage, SubRest, main, results, IInv, SubsTyped
<1>2. Active(s) /\ dosub[s].at <= Len(Contents[s])
  BY <1>1 DEF Active, IInv, SubsPlaced, AtFile
<1>3. FileOf(s) \in File /\ dosub[s] \in Worker /\ state' = [state EXCEPT ![s] = "started"]
  BY <1>1, <1>2, AtWork, FileTyped
<1>4. serial \in [File -> Nat] /\ i \in Image /\ i.file = FileOf(s) /\ i.n = serial[FileOf(s)] + 1
  BY <1>3 DEF IInv, ImagesNumbered, Image
<1> HIDE DEF i
<1>5. w \in Worker /\ w.pc = "link" /\ w.at = dosub[s].at /\ w.image = i
  BY <1>3, <1>4 DEF Worker
<1> HIDE DEF w
<1>6. /\ serial' \in [File -> Nat] /\ serial'[FileOf(s)] = i.n
      /\ \A f \in File : serial[f] <= serial'[f]
  BY <1>1, <1>3, <1>4
<1>7. i \notin images
  <2>1. \A k \in images : k.n <= serial[k.file]
    BY DEF IInv, ImagesNumbered
  <2>2. serial[FileOf(s)] \in Nat /\ ~(i.n <= serial[FileOf(s)])
    BY <1>3, <1>4
  <2> QED BY <1>4, <2>1, <2>2
<1>8. SubsTyped' /\ SubsPlaced' /\ ResultsOfSubs'
  <2>1. w.at <= Len(Contents[s]) + 1 /\ w.at <= Len(Contents[s])
    BY <1>2, <1>5, AtWork
  <2> QED BY <1>1, <1>2, <1>3, <1>5, <2>1, WorkerSub DEF IInv, SubsTyped
<1>9. ImagesNumbered'
  <2>1. images' \subseteq Image /\ \A k \in images' : k.n <= serial'[k.file]
    <3>1. images' \subseteq Image
      BY <1>1, <1>4 DEF IInv, ImagesNumbered
    <3>2. ASSUME NEW k \in images
          PROVE  k.n <= serial'[k.file]
      <4>1. k.n \in Nat /\ k.file \in File /\ k.n <= serial[k.file]
        BY DEF IInv, ImagesNumbered, Image
      <4>2. serial[k.file] \in Nat /\ serial'[k.file] \in Nat /\ serial[k.file] <= serial'[k.file]
        BY <1>4, <1>6, <4>1
      <4> QED BY <4>1, <4>2
    <3>3. i.n <= serial'[i.file]
      BY <1>3, <1>4, <1>6
    <3> QED BY <1>1, <3>1, <3>2, <3>3
  <2>2. \A u \in uis' : u.image \in images' /\ u.n \in 1..Cardinality(Numbers(u.sub, u.image)')
    BY <1>1 DEF IInv, ImagesNumbered, Numbers
  <2>3. /\ dosub'[s] = w /\ \A t \in Sub : t # s => dosub'[t] = dosub[t]
    BY <1>1 DEF IInv, SubsTyped
  <2>4. ASSUME NEW t \in Sub, dosub'[t].pc \in {"dedup", "link"}
        PROVE  /\ dosub'[t].image \in Image /\ dosub'[t].image.file = Contents[t][dosub'[t].at]
               /\ dosub'[t].image.n <= serial'[Contents[t][dosub'[t].at]]
    <3>1. CASE t = s
      BY <1>3, <1>4, <1>5, <1>6, <2>3, <3>1 DEF FileOf
    <3>2. CASE t # s
      <4> DEFINE f == FileOf(t)
                 k == dosub[t].image
      <4>1. k \in Image /\ k.file = f /\ k.n <= serial[f] /\ dosub'[t] = dosub[t]
        BY <2>3, <2>4, <3>2 DEF IInv, ImagesNumbered
      <4>2. k.n \in Nat /\ f \in File
        BY <4>1 DEF Image
      <4>3. serial[f] \in Nat /\ serial'[f] \in Nat /\ serial[f] <= serial'[f]
        BY <1>4, <1>6, <4>2
      <4>4. k.n <= serial'[f]
        BY <4>1, <4>2, <4>3
      <4> QED BY <4>1, <4>4 DEF FileOf
    <3> QED BY <3>1, <3>2
  <2> QED BY <1>1, <1>6, <2>1, <2>2, <2>4 DEF IInv, ImagesNumbered, FileOf
<1>10. ASSUME NEW u \in UserImage, Past(u)
       PROVE  Past(u)'
  <2>1. CASE u \in uis
    BY <1>1, <2>1 DEF Past
  <2>2. CASE u.image \notin images /\ u.image.n <= serial[u.image.file]
    <3>1. u.image.file \in File /\ u.image.n \in Nat
      BY DEF UserImage, Image
    <3>2. /\ serial[u.image.file] \in Nat /\ serial'[u.image.file] \in Nat
          /\ serial[u.image.file] <= serial'[u.image.file]
      BY <1>4, <1>6, <3>1
    <3>3. u.image # i
      BY <1>3, <1>4, <2>2, <3>1
    <3>4. u.image.n <= serial'[u.image.file]
      BY <2>2, <3>1, <3>2
    <3> QED BY <1>1, <2>2, <3>3, <3>4 DEF Past
  <2> QED BY <1>10, <2>1, <2>2 DEF Past
<1>11. JobsTyped'
  BY <1>1 DEF IInv, JobsTyped
<1>12. JobsPlaced'
  <2>1. \A j \in DOMAIN dojob : j.ui \in UserImage
    BY DEF IInv, JobsTyped, JobId
  <2>2. newuis \subseteq UserImage
    BY DEF IInv, JobsTyped
  <2> QED BY <1>1, <1>10, <2>1, <2>2 DEF IInv, JobsPlaced
<1>13. ResultsOfJobs'
  BY <1>1 DEF IInv, ResultsOfJobs, Distinct
<1> QED BY <1>8, <1>9, <1>11, <1>12, <1>13 DEF IInv

LEMMA CreateUserImageStep ==
  ASSUME NEW s \in Sub
  PROVE  IInv /\ create_user_image(s) => IInv'
<1> SUFFICES ASSUME IInv, create_user_image(s) PROVE IInv'
  OBVIOUS
<1>1. dosub[s].pc = "link" /\ UNCHANGED SubRest
  BY DEF create_user_image
<1>2. Active(s) /\ dosub[s].at <= Len(Contents[s])
  BY <1>1 DEF Active, IInv, SubsPlaced, AtFile
<1>3. CASE dosub[s].image \in images
  <2> DEFINE i == dosub[s].image
             v == [sub |-> s, image |-> i, n |-> Cardinality(Numbers(s, i)) + 1]
             w == [dosub[s] EXCEPT !.pc = "file", !.at = dosub[s].at + 1]
  <2>1. /\ uis' = uis \cup {v} /\ dosub' = [dosub EXCEPT ![s] = w]
        /\ UNCHANGED <<state, processing_retries, images, serial, jobs, qsubs, qjobs, dojob>>
        /\ UNCHANGED <<pc, pool, newsubs, newuis, subresults, jobresults, at, starts, lost>>
    BY <1>3 DEF create_user_image, Numbers, SubRest, main, results, IInv, SubsTyped
  <2>2. /\ dosub[s] \in Worker /\ dosub[s].at \in Nat \ {0} /\ state' = [state EXCEPT ![s] = "started"]
    BY <1>2, <2>1, AtWork
  <2>3. i \in Image
    BY <1>3 DEF IInv, ImagesNumbered
  <2> HIDE DEF i
  <2>4. IsFiniteSet(Numbers(s, i)) /\ Cardinality(Numbers(s, i)) \in Nat
    <3>1. Numbers(s, i) \in SUBSET uis /\ IsFiniteSet(uis)
      BY DEF Numbers, IInv, ImagesNumbered
    <3>2. IsFiniteSet(Numbers(s, i))
      BY <3>1, FS_Subset
    <3> QED BY <3>2, FS_CardinalityType
  <2>5. v \in UserImage /\ v.sub = s /\ v.image = i /\ v.n = Cardinality(Numbers(s, i)) + 1
    BY <2>3, <2>4 DEF UserImage
  <2> HIDE DEF v
  <2>6. v \notin uis
    <3> SUFFICES ASSUME v \in uis PROVE FALSE
      OBVIOUS
    <3>1. v.n \in 1..Cardinality(Numbers(s, i))
      BY <2>5 DEF IInv, ImagesNumbered
    <3> QED BY <2>4, <2>5, <3>1
  <2>7. w \in Worker /\ w.pc = "file" /\ w.at = dosub[s].at + 1
    <3> DEFINE n == dosub[s].at + 1
    <3>1. n \in Nat \ {0}
      BY <2>2
    <3> HIDE DEF n
    <3>2. w = [dosub[s] EXCEPT !.pc = "file", !.at = n]
      BY DEF n
    <3> HIDE DEF w
    <3>3. w \in Worker /\ w.pc = "file" /\ w.at = n
      BY <2>2, <3>1, <3>2 DEF Worker
    <3> QED BY <3>3 DEF n
  <2> HIDE DEF w
  <2>8. SubsTyped' /\ SubsPlaced' /\ ResultsOfSubs'
    <3>1. Len(Contents[s]) \in Nat /\ w.at <= Len(Contents[s]) + 1
      BY <1>2, <2>2, <2>7, IdleWorker
    <3> QED BY <1>2, <2>1, <2>2, <2>7, <3>1, WorkerSub DEF IInv, SubsTyped
  <2>9. ImagesNumbered'
    <3>1. IsFiniteSet(uis') /\ uis' \subseteq UserImage
      BY <2>1, <2>5, FS_AddElement DEF IInv, ImagesNumbered
    <3>2. ASSUME NEW u \in uis'
          PROVE  u.image \in images' /\ u.n \in 1..Cardinality(Numbers(u.sub, u.image)')
      <4>1. CASE u.sub = s /\ u.image = i
        <5>1. Numbers(u.sub, u.image)' = Numbers(s, i) \cup {v}
          BY <2>1, <2>5, <4>1 DEF Numbers
        <5>2. v \notin Numbers(s, i)
          BY <2>6 DEF Numbers
        <5>3. Cardinality(Numbers(s, i) \cup {v}) = Cardinality(Numbers(s, i)) + 1
          BY <2>4, <5>2, FS_AddElement
        <5>4. u.n \in 1..Cardinality(Numbers(s, i)) + 1
          <6>1. CASE u = v
            BY <2>4, <2>5, <6>1
          <6>2. CASE u # v
            <7>1. u.n \in 1..Cardinality(Numbers(s, i))
              BY <2>1, <4>1, <6>2 DEF IInv, ImagesNumbered
            <7> QED BY <2>4, <7>1
          <6> QED BY <6>1, <6>2
        <5> QED BY <1>3, <2>1, <4>1, <5>1, <5>3, <5>4 DEF i
      <4>2. CASE ~(u.sub = s /\ u.image = i)
        <5>1. u \in uis
          BY <2>1, <2>5, <4>2
        <5>2. Numbers(u.sub, u.image)' = Numbers(u.sub, u.image)
          BY <2>1, <2>5, <4>2 DEF Numbers
        <5> QED BY <2>1, <5>1, <5>2 DEF IInv, ImagesNumbered
      <4> QED BY <4>1, <4>2
    <3>3. /\ dosub'[s] = w /\ \A t \in Sub : t # s => dosub'[t] = dosub[t]
      BY <2>1 DEF IInv, SubsTyped
    <3>4. \A t \in Sub : dosub'[t].pc \in {"dedup", "link"} =>
            /\ dosub'[t].image \in Image /\ dosub'[t].image.file = FileOf(t)'
            /\ dosub'[t].image.n <= serial'[FileOf(t)']
      <4> TAKE t \in Sub
      <4>1. CASE t = s
        BY <2>7, <3>3, <4>1
      <4>2. CASE t # s
        <5>1. dosub'[t] = dosub[t] /\ FileOf(t)' = FileOf(t)
          BY <3>3, <4>2 DEF FileOf
        <5> QED BY <2>1, <5>1 DEF IInv, ImagesNumbered
      <4> QED BY <4>1, <4>2
    <3> QED BY <2>1, <3>1, <3>2, <3>4 DEF IInv, ImagesNumbered
  <2>10. JobsTyped'
    BY <2>1 DEF IInv, JobsTyped
  <2>11. JobsPlaced'
    <3>1. \A j \in DOMAIN dojob : Past(j.ui)' /\ (j.ui \in uis' => j \in DOMAIN jobs')
      <4> TAKE j \in DOMAIN dojob
      <4>1. Past(j.ui)
        BY DEF IInv, JobsPlaced
      <4>2. j.ui # v
        BY <1>3, <2>5, <2>6, <4>1 DEF Past, i
      <4> QED BY <2>1, <4>1, <4>2 DEF Past, IInv, JobsPlaced
    <3>2. \A u \in newuis' : Past(u)' /\ \A j \in DOMAIN jobs' : j.ui # u
      BY <2>1 DEF Past, IInv, JobsPlaced
    <3> QED BY <2>1, <3>1, <3>2 DEF IInv, JobsPlaced
  <2>12. ResultsOfJobs'
    BY <2>1 DEF IInv, ResultsOfJobs, Distinct
  <2> QED BY <2>8, <2>9, <2>10, <2>11, <2>12 DEF IInv
<1>4. CASE dosub[s].image \notin images
  BY <1>1, <1>2, <1>4, DatabaseErrorStep DEF create_user_image
<1> QED BY <1>3, <1>4

LEMMA DeleteDuplicateStep ==
  ASSUME NEW s \in Sub
  PROVE  IInv /\ DeleteDuplicate(s) => IInv'
<1> SUFFICES ASSUME IInv, DeleteDuplicate(s) PROVE IInv'
  OBVIOUS
<1>1. PICK i \in dosub[s].others, p \in {"link", "dedup"} :
        /\ dosub[s].pc = "dedup" /\ images' = images \ {i}
        /\ uis' = {u \in uis : u.image # i}
        /\ jobs' = Restrict(jobs, {j \in DOMAIN jobs : j.ui.image # i})
        /\ qjobs' = {j \in qjobs : j.ui.image # i}
        /\ dosub' = [dosub EXCEPT ![s].others = @ \ {i}, ![s].pc = p]
        /\ UNCHANGED <<state, processing_retries, serial, qsubs, dojob>>
        /\ UNCHANGED <<pc, pool, newsubs, newuis, subresults, jobresults, at, starts, lost>>
  BY DEF DeleteDuplicate, main, results
<1>2. Active(s) /\ dosub[s].at <= Len(Contents[s])
  BY <1>1 DEF Active, IInv, SubsPlaced, AtFile
<1>3. PICK w \in Worker :
        /\ dosub' = [dosub EXCEPT ![s] = w] /\ w.at = dosub[s].at /\ w.image = dosub[s].image
        /\ w.pc \in {"dedup", "link"}
  <2>1. dosub[s] \in Worker /\ dosub \in [Sub -> Worker]
    BY DEF IInv, SubsTyped
  <2> DEFINE o == dosub[s].others \ {i}
             w == [dosub[s] EXCEPT !.others = o, !.pc = p]
  <2>2. o \in SUBSET Image
    BY <2>1 DEF Worker
  <2>3. dosub' = [dosub EXCEPT ![s] = w]
    BY <1>1, <2>1
  <2> HIDE DEF o
  <2>4. w \in Worker /\ w.at = dosub[s].at /\ w.image = dosub[s].image /\ w.pc = p
    BY <2>1, <2>2 DEF Worker
  <2> QED BY <2>3, <2>4
<1>4. SubsTyped' /\ SubsPlaced' /\ ResultsOfSubs'
  <2>1. state' = [state EXCEPT ![s] = "started"] /\ w.at <= Len(Contents[s]) + 1
    BY <1>1, <1>2, <1>3, AtWork
  <2> QED BY <1>1, <1>2, <1>3, <2>1, WorkerSub DEF IInv, SubsTyped
<1>5. ImagesNumbered'
  <2>1. uis' \subseteq UserImage /\ IsFiniteSet(uis')
    <3>1. uis' \in SUBSET uis /\ IsFiniteSet(uis) /\ uis \subseteq UserImage
      BY <1>1 DEF IInv, ImagesNumbered
    <3> QED BY <3>1, FS_Subset
  <2>2. \A u \in uis' : u.image \in images' /\ u.n \in 1..Cardinality(Numbers(u.sub, u.image)')
    <3> TAKE u \in uis'
    <3>1. u \in uis /\ u.image # i
      BY <1>1
    <3>2. Numbers(u.sub, u.image)' = Numbers(u.sub, u.image)
      BY <1>1, <3>1 DEF Numbers
    <3> QED BY <1>1, <3>1, <3>2 DEF IInv, ImagesNumbered
  <2>3. \A t \in Sub : dosub'[t].pc \in {"dedup", "link"} =>
          /\ dosub'[t].image \in Image /\ dosub'[t].image.file = FileOf(t)'
          /\ dosub'[t].image.n <= serial'[FileOf(t)']
    <3> TAKE t \in Sub
    <3>1. dosub'[t].image = dosub[t].image /\ dosub'[t].at = dosub[t].at
          /\ (dosub'[t].pc \in {"dedup", "link"} => dosub[t].pc \in {"dedup", "link"})
      BY <1>1, <1>3 DEF IInv, SubsTyped
    <3>2. FileOf(t)' = FileOf(t)
      BY <3>1 DEF FileOf
    <3> QED BY <1>1, <3>1, <3>2 DEF IInv, ImagesNumbered
  <2> QED BY <1>1, <2>1, <2>2, <2>3 DEF IInv, ImagesNumbered
<1>6. /\ DOMAIN jobs' = {j \in DOMAIN jobs : j.ui.image # i}
      /\ \A j \in DOMAIN jobs' : jobs'[j] = jobs[j]
  BY <1>1 DEF Restrict
<1>7. JobsTyped'
  BY <1>1, <1>6 DEF IInv, JobsTyped
<1>8. JobsPlaced'
  <2>1. ASSUME NEW u, Past(u)
        PROVE  Past(u)'
    <3>1. images' = images \ {i} /\ serial' = serial
      BY <1>1
    <3>2. CASE u \in uis
      <4>1. u.image \in images /\ u.image.n <= serial[u.image.file]
        BY <3>2 DEF IInv, ImagesNumbered
      <4> QED BY <1>1, <3>1, <3>2, <4>1 DEF Past
    <3>3. CASE u \notin uis
      BY <1>1, <2>1, <3>1, <3>3 DEF Past
    <3> QED BY <3>2, <3>3
  <2>2. \A j \in DOMAIN dojob' : Past(j.ui)' /\ (j.ui \in uis' => j \in DOMAIN jobs')
    BY <1>1, <1>6, <2>1 DEF IInv, JobsPlaced
  <2>3. \A u \in newuis' : Past(u)' /\ \A j \in DOMAIN jobs' : j.ui # u
    BY <1>1, <1>6, <2>1 DEF IInv, JobsPlaced
  <2> QED BY <1>1, <1>6, <2>2, <2>3 DEF IInv, JobsPlaced
<1>9. ResultsOfJobs'
  BY <1>1 DEF IInv, ResultsOfJobs, Distinct
<1> QED BY <1>4, <1>5, <1>7, <1>8, <1>9 DEF IInv

LEMMA SubStepStep ==
  ASSUME NEW s \in Sub
  PROVE  IInv /\ SubStep(s) => IInv'
<1> SUFFICES ASSUME IInv, SubStep(s) PROVE IInv'
  OBVIOUS
<1>1. CASE BeginSub(s)
  BY <1>1, BeginSubStep
<1>2. CASE Lookup(s)
  BY <1>2, LookupStep
<1>3. CASE DeleteDuplicate(s)
  BY <1>3, DeleteDuplicateStep
<1>4. CASE CreateImage(s)
  BY <1>4, CreateImageStep
<1>5. CASE create_user_image(s)
  BY <1>5, CreateUserImageStep
<1>6. CASE FinishSub(s)
  BY <1>6, FinishedStep DEF FinishSub, Active
<1>7. CASE SubFails(s)
  BY <1>7, FinishedStep, RaiseStep DEF SubFails, Fails, Active
<1>8. CASE SubDatabaseError(s)
  BY <1>8, DatabaseErrorStep DEF SubDatabaseError, Active
<1>9. CASE FetchImages(s)
  BY <1>9, FetchImagesStep
<1> QED BY <1>1, <1>2, <1>3, <1>4, <1>5, <1>6, <1>7, <1>8, <1>9 DEF SubStep

-----------------------------------------------------------------------------
(* The invariant holds. *)

LEMMA OldImagesThere ==
  Init => /\ serial \in [File -> Nat] /\ images \subseteq Image
          /\ \A i \in images : i.n <= serial[i.file]
<1> SUFFICES ASSUME Init
             PROVE  /\ serial \in [File -> Nat]
                    /\ \A i \in images : i \in Image /\ i.n <= serial[i.file]
  OBVIOUS
<1>1. serial \in [File -> Nat]
  <2>1. serial \in [File -> OldImages] /\ OldImages \subseteq Nat
    BY PipelineAssumption, Zenon DEF Init
  <2> QED BY <2>1
<1>2. ASSUME NEW i \in images
      PROVE  i \in Image /\ i.n <= serial[i.file]
  <2>1. PICK f \in File : i \in {[file |-> f, n |-> k] : k \in 1..serial[f]}
    BY Zenon DEF Init
  <2>2. PICK k \in 1..serial[f] : i = [file |-> f, n |-> k]
    BY <2>1
  <2>3. serial[f] \in Nat
    BY <1>1
  <2>4. k \in Nat /\ k <= serial[f]
    BY <2>3
  <2> QED BY <2>2, <2>4 DEF Image
<1> QED BY <1>1, <1>2

LEMMA InitIInv == Init => IInv
<1> SUFFICES ASSUME Init PROVE IInv
  OBVIOUS
<1>1. DOMAIN jobs = {} /\ DOMAIN dojob = {} /\ DOMAIN subresults = {} /\ DOMAIN jobresults = {}
  BY DEF Init
<1>2. SubsTyped
  <2>1. /\ state = [s \in Sub |-> "absent"] /\ processing_retries = [s \in Sub |-> 0]
        /\ qsubs = [s \in Sub |-> 0] /\ pc = "down" /\ pool = [subs |-> TRUE, jobs |-> TRUE]
        /\ newsubs = {} /\ subresults = <<>> /\ at = 1
        /\ starts = 0 /\ lost = FALSE /\ dosub = [s \in Sub |-> Idle]
    BY Zenon DEF Init
  <2>2. max_sub_retries \in Nat /\ MaxStarts \in Nat
    BY PipelineAssumption
  <2>3. dosub \in [Sub -> Worker] /\ processing_retries \in [Sub -> 0..max_sub_retries]
    BY <2>1, <2>2, IdleWorker
  <2>4. subresults \in Seq(Sub) /\ pool \in [subs : BOOLEAN, jobs : BOOLEAN]
    BY <2>1
  <2>5. /\ state \in [Sub -> {"absent", "new", "started", "finished", "failed"}]
        /\ qsubs \in [Sub -> Nat]
    BY <2>1
  <2>6. /\ pc \in {"down", "look", "scanSubs", "scanJobs", "queueSubs",
                   "inSub", "queueJobs", "inJob"}
        /\ at \in Nat \ {0} /\ newsubs \subseteq Sub
    BY <2>1
  <2>7. starts \in 0..MaxStarts
    BY <2>1, <2>2
  <2>8. lost \in BOOLEAN
    BY <2>1
  <2> QED BY <2>8, <2>3, <2>4, <2>5, <2>6, <2>7 DEF SubsTyped
<1>3. SubsPlaced
  BY IdleWorker DEF Init, SubsPlaced, Active, AtFile
<1>4. ResultsOfSubs
  BY <1>1 DEF Init, ResultsOfSubs, Distinct
<1>5. ImagesNumbered
  <2>1. serial \in [File -> Nat] /\ images \subseteq Image /\ \A i \in images : i.n <= serial[i.file]
    BY OldImagesThere
  <2>2. uis = {} /\ IsFiniteSet(uis)
    BY FS_EmptySet DEF Init
  <2> QED BY <2>1, <2>2, IdleWorker DEF Init, ImagesNumbered
<1>6. JobsTyped
  BY <1>1 DEF Init, JobsTyped
<1>7. JobsPlaced
  BY <1>1 DEF Init, JobsPlaced
<1>8. ResultsOfJobs
  BY <1>1 DEF Init, ResultsOfJobs, Distinct
<1> QED BY <1>2, <1>3, <1>4, <1>5, <1>6, <1>7, <1>8 DEF IInv

LEMMA NextIInv == IInv /\ [Next]_vars => IInv'
<1> SUFFICES ASSUME IInv, [Next]_vars PROVE IInv'
  OBVIOUS
<1>1. CASE \E s \in Sub : Submit(s)
  BY <1>1, SubmitStep
<1>2. CASE Kill
  BY <1>2, DieStep DEF Kill, IInv, SubsTyped
<1>3. CASE Start
  BY <1>3, StartStep
<1>4. CASE MainStep
  <2>1. CASE Look
    BY <2>1, LookStep
  <2>2. CASE ScanSub
    BY <2>2, ScanSubStep
  <2>3. CASE ScanSubsEnd
    BY <2>3, ScanSubsEndStep
  <2>4. CASE ScanJob
    BY <2>4, ScanJobStep
  <2>5. CASE ScanJobsEnd
    BY <2>5, ScanJobsEndStep
  <2>6. CASE \E s \in Sub : QueueSub(s) \/ InlineSubDone(s)
    BY <2>6, QueueSubStep, InlineSubDoneStep
  <2>7. CASE SubsQueued \/ JobsQueued
    BY <2>7, QueuedStep
  <2>8. CASE InlineJobDone
    BY <2>8, InlineJobDoneStep
  <2>9. CASE \E u \in newuis : QueueJob(u)
    BY <2>9, QueueJobStep
  <2>10. CASE \E s \in Sub : InlineSubRaised(s)
    BY <2>10, DieStep DEF InlineSubRaised, IInv, SubsTyped
  <2>11. CASE \E j \in DOMAIN dojob : InlineJobRaised(j)
    BY <2>11, DieStep DEF InlineJobRaised
  <2> QED BY <1>4, <2>1, <2>2, <2>3, <2>4, <2>5, <2>6, <2>7, <2>8, <2>9, <2>10, <2>11
          DEF MainStep
<1>5. CASE WorkerStep
  BY <1>5, SubStepStep, JobStepStep DEF WorkerStep
<1>6. CASE Stopped \/ UNCHANGED vars
  BY <1>6, StutterStep DEF Stopped
<1> QED BY <1>1, <1>2, <1>3, <1>4, <1>5, <1>6 DEF Next

LEMMA AlwaysIInv == Spec => []IInv
BY InitIInv, NextIInv, PTL DEF Spec

LEMMA IInvTypes == IInv => TypeInv
<1> SUFFICES ASSUME IInv PROVE TypeInv
  OBVIOUS
<1>1. /\ state \in [Sub -> {"absent", "new", "started", "finished", "failed"}]
      /\ processing_retries \in [Sub -> 0..max_sub_retries]
      /\ qsubs \in [Sub -> Nat]
      /\ pc \in {"down", "look", "scanSubs", "scanJobs", "queueSubs",
                 "inSub", "queueJobs", "inJob"}
      /\ pool \in [subs : BOOLEAN, jobs : BOOLEAN] /\ at \in Nat \ {0}
      /\ newsubs \subseteq Sub /\ subresults \in Seq(Sub)
      /\ starts \in 0..MaxStarts /\ lost \in BOOLEAN
  BY DEF IInv, SubsTyped
<1>2. /\ serial \in [File -> Nat] /\ images \subseteq {i \in Image : i.n <= serial[i.file]}
      /\ \A u \in uis : u \in UserImage /\ u.image \in images
  BY DEF IInv, ImagesNumbered
<1>3. /\ \A j \in DOMAIN jobs :
           j \in JobId /\ j.ui \in uis /\ jobs[j] \in {"queued", "started", "ended"}
      /\ qjobs \subseteq DOMAIN jobs /\ \A u \in newuis : u \in UserImage
      /\ \A j \in DOMAIN dojob :
           j \in JobId /\ dojob[j] \in {"queued", "run", "ready", "raised"}
      /\ \A k \in DOMAIN jobresults : jobresults[k] \in DOMAIN dojob
  BY DEF IInv, JobsTyped, ResultsOfJobs
<1>4. \A s \in Sub :
        /\ dosub[s].pc \in {"none", "queued", "file", "fetch", "dedup", "create", "link",
                            "ready", "raised"}
        /\ dosub[s].at \in 1..Len(Contents[s]) + 1
        /\ dosub[s].image \in Image \cup {NoImage} /\ dosub[s].others \subseteq Image
  <2> TAKE s \in Sub
  <2>1. dosub[s] \in Worker /\ dosub[s].at <= Len(Contents[s]) + 1 /\ Len(Contents[s]) \in Nat
    BY IdleWorker DEF IInv, SubsTyped, SubsPlaced
  <2> QED BY <2>1 DEF Worker
<1> QED BY <1>1, <1>2, <1>3, <1>4 DEF TypeInv

-----------------------------------------------------------------------------
(* What follows without a condition. *)

\* Type correctness: in particular, the database refers to no row that is gone, and
\* each result the main process waits for is that of a job with a worker.
THEOREM PipelineTypeCorrect == Spec => []TypeInv
BY AlwaysIInv, IInvTypes, PTL

\* While the process runs, what looks begun in the database is with a worker, or its
\* worker raised, and no image has two jobs: through every kill, every failure, of a
\* handler too, and every deletion of a duplicate Image by another submission.
THEOREM NoneStranded == Spec => []NothingStranded
<1>1. IInv => NothingStranded
  BY DEF IInv, SubsTyped, SubsPlaced, Active, JobsPlaced, NothingStranded
<1> QED BY <1>1, AlwaysIInv, PTL

-----------------------------------------------------------------------------
(* The number of copies. *)

\* A step that adds no copy, and takes no attempt back without counting it.
NoCopy ==
  /\ uis' \subseteq uis /\ starts' = starts
  /\ \A s \in Sub : processing_retries'[s] >= processing_retries[s]
  /\ \/ pc' = "down"
     \/ /\ pc = "down" => pc' = "down"
        /\ \A s \in Sub :
             /\ state[s] \in {"finished", "failed"} => state'[s] \in {"finished", "failed"}
             /\ dosub[s].pc = "raised" => dosub'[s].pc = "raised"
             /\ Active(s) => \/ Active(s)' /\ dosub'[s].at >= dosub[s].at
                             \/ dosub'[s].pc = "raised"
                             \/ state'[s] \in {"finished", "failed"}
                             \/ processing_retries'[s] > processing_retries[s]

LEMMA CopiesFinite ==
  ASSUME IInv
  PROVE  \A s \in Sub, f \in File :
           /\ Copies(s, f) \in SUBSET uis /\ IsFiniteSet(Copies(s, f))
           /\ Cardinality(Copies(s, f)) \in Nat
<1> TAKE s \in Sub, f \in File
<1>1. Copies(s, f) \in SUBSET uis /\ IsFiniteSet(uis)
  BY DEF Copies, IInv, ImagesNumbered
<1>2. IsFiniteSet(Copies(s, f))
  BY <1>1, FS_Subset
<1> QED BY <1>1, <1>2, FS_CardinalityType

LEMMA CountTyped ==
  ASSUME IInv
  PROVE  /\ starts \in Nat /\ \A s \in Sub : processing_retries[s] \in Nat
         /\ \A s \in Sub : dosub[s].at \in Nat /\ DOMAIN Contents[s] \subseteq Nat
<1>1. starts \in Nat /\ \A s \in Sub : processing_retries[s] \in Nat
  BY PipelineAssumption DEF IInv, SubsTyped
<1>2. \A s \in Sub : dosub[s].at \in Nat
  BY DEF IInv, SubsTyped, Worker
<1>3. \A s \in Sub : Contents[s] \in Seq(File)
  BY PipelineAssumption
<1> QED BY <1>1, <1>2, <1>3

LEMMA NoCopyCounted ==
  ASSUME IInv, IInv', CopiesCounted, NoCopy
  PROVE  CopiesCounted'
<1> SUFFICES ASSUME NEW s \in Sub, NEW f \in File
             PROVE  Counted(s, f)'
  BY DEF CopiesCounted
<1> DEFINE c == Cardinality(Copies(s, f))
           d == Cardinality(Copies(s, f)')
           b == starts + processing_retries[s]
           e == starts' + processing_retries'[s]
<1>1. c \in Nat /\ d \in Nat /\ d <= c
  <2>1. Copies(s, f)' \in SUBSET Copies(s, f)
    BY DEF NoCopy, Copies
  <2>2. IsFiniteSet(Copies(s, f)) /\ c \in Nat
    BY CopiesFinite
  <2>3. IsFiniteSet(Copies(s, f)') /\ d <= c
    BY <2>1, <2>2, FS_Subset
  <2> QED BY <2>2, <2>3, FS_CardinalityType
<1>2. b \in Nat /\ e \in Nat /\ b <= e
  <2>1. starts \in Nat /\ processing_retries[s] \in Nat
    BY CountTyped
  <2>2. processing_retries'[s] \in Nat
    BY PipelineAssumption DEF IInv, SubsTyped
  <2> QED BY <2>1, <2>2 DEF NoCopy
<1>3. c <= b /\ (~Added(s, f) => c < b)
  BY DEF CopiesCounted, Counted
<1>4. Added(s, f) => Added(s, f)' \/ b < e
  <2> SUFFICES ASSUME Added(s, f), pc' # "down"
               PROVE  Added(s, f)' \/ b < e
    BY DEF Added
  <2>1. pc # "down"
    BY DEF NoCopy
  <2>2. CASE state[s] \in {"finished", "failed"}
    BY <2>2 DEF NoCopy, Added
  <2>4. CASE dosub[s].pc = "raised"
    BY <2>1, <2>4 DEF NoCopy, Added
  <2>3. CASE state[s] \notin {"finished", "failed"} /\ dosub[s].pc # "raised"
    <3>1. PICK k \in DOMAIN Contents[s] : k < dosub[s].at /\ Contents[s][k] = f /\ Active(s)
      BY <2>1, <2>3 DEF Added
    <3>2. CASE Active(s)' /\ dosub'[s].at >= dosub[s].at
      <4>1. k \in Nat /\ dosub[s].at \in Nat /\ dosub'[s].at \in Nat
        BY CountTyped DEF IInv, SubsTyped, Worker
      <4>2. k < dosub'[s].at
        BY <3>1, <3>2, <4>1
      <4> QED BY <3>1, <3>2, <4>2 DEF Added
    <3>3. CASE state'[s] \in {"finished", "failed"}
      BY <3>3 DEF Added
    <3>4. CASE processing_retries'[s] > processing_retries[s]
      <4>1. starts \in Nat /\ processing_retries[s] \in Nat /\ starts' = starts
        BY CountTyped DEF NoCopy
      <4>2. processing_retries'[s] \in Nat
        BY PipelineAssumption DEF IInv, SubsTyped
      <4> QED BY <3>4, <4>1, <4>2
    <3>5. CASE dosub'[s].pc = "raised"
      BY <3>5 DEF Added
    <3> QED BY <2>1, <3>1, <3>2, <3>3, <3>4, <3>5 DEF NoCopy
  <2> QED BY <2>2, <2>3, <2>4
<1>5. d <= e /\ (~Added(s, f)' => d < e)
  <2> HIDE DEF b, c, d, e
  <2> QED BY <1>1, <1>2, <1>3, <1>4
<1> QED BY <1>5 DEF Counted

LEMMA DieNoCopy == IInv /\ Die => NoCopy
<1> SUFFICES ASSUME IInv, Die PROVE NoCopy
  OBVIOUS
<1>1. pc' = "down" /\ UNCHANGED <<processing_retries, uis, starts>>
  BY DEF Die
<1>2. \A s \in Sub : processing_retries[s] \in Nat
  BY CountTyped
<1> QED BY <1>1, <1>2 DEF NoCopy

\* A step that leaves the submissions, and the workers that are at work, as they are.
LEMMA SameNoCopy ==
  ASSUME IInv, UNCHANGED <<processing_retries, uis, starts>>,
         pc = "down" => pc' = "down",
         \A s \in Sub : state'[s] = state[s] \/ state[s] \in {"absent", "new"},
         \A s \in Sub : Active(s) => dosub'[s] = dosub[s]
  PROVE  NoCopy
<1>1. \A s \in Sub : processing_retries[s] \in Nat /\ dosub[s].at \in Nat
  BY CountTyped
<1>2. ASSUME NEW s \in Sub, Active(s)
      PROVE  Active(s)' /\ dosub'[s].at >= dosub[s].at
  BY <1>1, <1>2 DEF Active
<1>3. \A s \in Sub : dosub[s].pc = "raised" => dosub'[s].pc = "raised"
  BY DEF Active
<1> QED BY <1>1, <1>2, <1>3 DEF NoCopy

LEMMA MainNoCopy == IInv /\ MainStep => NoCopy
<1> SUFFICES ASSUME IInv, MainStep PROVE NoCopy
  OBVIOUS
<1>1. CASE ScanSub
  <2> DEFINE s == subresults[at]
  <2>1. s \in Sub /\ dosub \in [Sub -> Worker] /\ pc # "down" /\ UNCHANGED starts
    BY <1>1 DEF ScanSub, IInv, SubsTyped
  <2>2. CASE dosub[s].pc \notin {"ready", "raised"}
    <3>1. UNCHANGED <<state, processing_retries, uis, dosub>>
      BY <1>1, <2>2 DEF ScanSub, database
    <3> QED BY <2>1, <3>1, SameNoCopy
  <2>3. CASE dosub[s].pc \in {"ready", "raised"} /\ qsubs[s] = 1
    <3>1. /\ UNCHANGED <<state, processing_retries, uis>>
          /\ dosub' = [dosub EXCEPT ![s] = IF @.pc = "ready" THEN Idle ELSE @]
      BY <1>1, <2>3 DEF ScanSub
    <3> HIDE DEF s
    <3>2. \A t \in Sub : Active(t) => dosub'[t] = dosub[t]
      BY <2>1, <2>3, <3>1 DEF Active
    <3> QED BY <2>1, <3>1, <3>2, SameNoCopy
  <2>4. CASE dosub[s].pc \in {"ready", "raised"} /\ qsubs[s] # 1
    BY <1>1, <2>4, DieNoCopy DEF ScanSub
  <2> QED BY <2>2, <2>3, <2>4
<1>2. CASE ScanJob
  <2>1. \/ Die
        \/ UNCHANGED <<state, processing_retries, uis, dosub, pc, starts>>
    BY <1>2 DEF ScanJob, database
  <2> QED BY <2>1, DieNoCopy, SameNoCopy
<1>3. ASSUME NEW s \in Sub, QueueSub(s)
      PROVE  NoCopy
  <2>1. /\ UNCHANGED <<processing_retries, uis, starts>> /\ pc # "down" /\ s \in newsubs
        /\ state' = [state EXCEPT ![s] = "started"]
        /\ dosub' = [dosub EXCEPT ![s] = [Idle EXCEPT !.pc = "queued"]]
    BY <1>3 DEF QueueSub
  <2>2. state[s] = "new" /\ dosub[s].pc = "none"
    BY <2>1 DEF IInv, SubsPlaced
  <2>3. \A t \in Sub : state'[t] = state[t] \/ state[t] \in {"absent", "new"}
    BY <2>1, <2>2 DEF IInv, SubsTyped
  <2>4. \A t \in Sub : Active(t) => dosub'[t] = dosub[t]
    BY <2>1, <2>2 DEF IInv, SubsTyped, Active
  <2> QED BY <2>1, <2>3, <2>4, SameNoCopy
<1>4. ASSUME NEW s \in Sub, InlineSubDone(s)
      PROVE  NoCopy
  <2>1. /\ UNCHANGED <<state, processing_retries, uis, starts>> /\ pc # "down"
        /\ dosub[s].pc = "ready" /\ dosub' = [dosub EXCEPT ![s] = Idle]
    BY <1>4 DEF InlineSubDone, database
  <2>2. \A t \in Sub : Active(t) => dosub'[t] = dosub[t]
    BY <2>1 DEF IInv, SubsTyped, Active
  <2> QED BY <2>1, <2>2, SameNoCopy
<1>5. ASSUME NEW u \in newuis, QueueJob(u)
      PROVE  NoCopy
  <2>1. \/ Die
        \/ UNCHANGED <<state, processing_retries, uis, dosub, starts>> /\ pc # "down"
    BY <1>5 DEF QueueJob
  <2> QED BY <2>1, DieNoCopy, SameNoCopy
<1>6. CASE Look \/ ScanSubsEnd \/ ScanJobsEnd \/ SubsQueued \/ InlineJobDone \/ JobsQueued
  <2>1. UNCHANGED <<state, processing_retries, uis, dosub, starts>> /\ pc # "down"
    BY <1>6 DEF Look, ScanSubsEnd, ScanJobsEnd, SubsQueued, InlineJobDone, JobsQueued, database
  <2> QED BY <2>1, SameNoCopy
<1>7. ASSUME Die
      PROVE  NoCopy
  BY <1>7, DieNoCopy
<1> QED BY <1>1, <1>2, <1>3, <1>4, <1>5, <1>6, <1>7
        DEF MainStep, InlineSubRaised, InlineJobRaised

LEMMA FinishedNoCopy ==
  ASSUME IInv, NEW s \in Sub, NEW how \in {"finished", "failed"},
         dosub[s].pc # "raised", Finished(s, how), UNCHANGED SubRest
  PROVE  NoCopy
<1>1. /\ state' = [state EXCEPT ![s] = how]
      /\ dosub' = [dosub EXCEPT ![s] = [Idle EXCEPT !.pc = "ready"]]
      /\ UNCHANGED <<processing_retries, uis, starts, pc>>
  BY DEF Finished, SubRest, main
<1>2. \A t \in Sub : processing_retries[t] \in Nat /\ dosub[t].at \in Nat
  BY CountTyped
<1>3. state'[s] = how /\ \A t \in Sub : t # s => state'[t] = state[t] /\ dosub'[t] = dosub[t]
  BY <1>1 DEF IInv, SubsTyped
<1>4. \A t \in Sub : state[t] \in {"finished", "failed"} => state'[t] \in {"finished", "failed"}
  BY <1>3
<1>5. \A t \in Sub : Active(t) => \/ Active(t)' /\ dosub'[t].at >= dosub[t].at
                                  \/ state'[t] \in {"finished", "failed"}
  BY <1>2, <1>3 DEF Active
<1>6. \A t \in Sub : dosub[t].pc = "raised" => dosub'[t].pc = "raised"
  BY <1>3
<1> QED BY <1>1, <1>2, <1>4, <1>5, <1>6 DEF NoCopy

LEMMA RaiseNoCopy ==
  ASSUME IInv, NEW s \in Sub, Raise(s), UNCHANGED SubRest
  PROVE  NoCopy
<1>1. /\ dosub' = [dosub EXCEPT ![s] = [Idle EXCEPT !.pc = "raised"]]
      /\ UNCHANGED <<state, processing_retries, uis, starts, pc>>
  BY DEF Raise, SubRest, main
<1>2. \A t \in Sub : processing_retries[t] \in Nat /\ dosub[t].at \in Nat
  BY CountTyped
<1>3. dosub'[s].pc = "raised" /\ \A t \in Sub : t # s => dosub'[t] = dosub[t]
  BY <1>1 DEF IInv, SubsTyped, Idle
<1>4. \A t \in Sub : Active(t) => \/ Active(t)' /\ dosub'[t].at >= dosub[t].at
                                  \/ dosub'[t].pc = "raised"
  BY <1>2, <1>3 DEF Active
<1>5. \A t \in Sub : dosub[t].pc = "raised" => dosub'[t].pc = "raised"
  BY <1>3
<1> QED BY <1>1, <1>2, <1>4, <1>5 DEF NoCopy

LEMMA DatabaseErrorNoCopy ==
  ASSUME IInv, NEW s \in Sub, dosub[s].pc # "raised", DatabaseError(s), UNCHANGED SubRest
  PROVE  NoCopy
<1>1. CASE Finished(s, "failed")
  BY <1>1, FinishedNoCopy
<1>2. CASE Raise(s)
  BY <1>2, RaiseNoCopy
<1>3. CASE ~Finished(s, "failed") /\ ~Raise(s)
  <2>1. /\ processing_retries' = [processing_retries EXCEPT ![s] = @ + 1]
        /\ dosub' = [dosub EXCEPT ![s] = [Idle EXCEPT !.pc = "queued"]]
        /\ UNCHANGED <<state, uis, starts, pc>>
    BY <1>3 DEF DatabaseError, SubRest, main
  <2>2. \A t \in Sub : processing_retries[t] \in Nat /\ dosub[t].at \in Nat
    BY CountTyped
  <2>3. processing_retries'[s] = processing_retries[s] + 1 /\
        \A t \in Sub : t # s =>
          processing_retries'[t] = processing_retries[t] /\ dosub'[t] = dosub[t]
    BY <2>1 DEF IInv, SubsTyped
  <2>4. \A t \in Sub : processing_retries'[t] >= processing_retries[t]
    BY <2>2, <2>3
  <2>5. \A t \in Sub : Active(t) => \/ Active(t)' /\ dosub'[t].at >= dosub[t].at
                                    \/ processing_retries'[t] > processing_retries[t]
    BY <2>2, <2>3 DEF Active
  <2>6. \A t \in Sub : dosub[t].pc = "raised" => dosub'[t].pc = "raised"
    BY <2>3
  <2> QED BY <2>1, <2>4, <2>5, <2>6 DEF NoCopy
<1> QED BY <1>1, <1>2, <1>3

\* The worker stays at its file.
LEMMA StaysNoCopy ==
  ASSUME IInv, NEW s \in Sub,
         BeginSub(s) \/ Lookup(s) \/ FetchImages(s) \/ DeleteDuplicate(s) \/ CreateImage(s)
  PROVE  NoCopy
<1>1. /\ Active(s) /\ dosub[s].pc # "raised" /\ uis' \subseteq uis /\ UNCHANGED <<processing_retries, starts, pc>>
      /\ state' = state \/ state' = [state EXCEPT ![s] = "started"]
  BY DEF BeginSub, Lookup, FetchImages, DeleteDuplicate, CreateImage, SubRest, main, Active
<1>2. dosub \in [Sub -> Worker] /\ dosub[s] \in Worker
  BY DEF IInv, SubsTyped
<1>3. /\ \A t \in Sub : t # s => dosub'[t] = dosub[t]
      /\ dosub'[s].at = dosub[s].at /\ dosub'[s].pc \notin {"none", "ready"}
  <2>1. CASE BeginSub(s)
    BY <1>2, <2>1 DEF BeginSub, Worker
  <2>2. CASE Lookup(s)
    <3>1. CASE \E p \in {"create", "fetch"} : dosub' = [dosub EXCEPT ![s].pc = p]
      BY <1>2, <3>1 DEF Worker
    <3>2. CASE \E i : dosub' = [dosub EXCEPT ![s].pc = "link", ![s].image = i]
      BY <1>2, <3>2 DEF Worker
    <3> QED BY <2>2, <3>1, <3>2 DEF Lookup
  <2>3. CASE DeleteDuplicate(s)
    <3>1. \E i, p : /\ dosub' = [dosub EXCEPT ![s].others = @ \ {i}, ![s].pc = p]
                   /\ p \in {"link", "dedup"}
      BY <2>3 DEF DeleteDuplicate
    <3> QED BY <1>2, <3>1 DEF Worker
  <2>5. CASE FetchImages(s)
    <3>1. \E i, o, p : /\ dosub' = [dosub EXCEPT ![s].image = i, ![s].others = o, ![s].pc = p]
                      /\ p \in {"link", "dedup"}
      BY <2>5 DEF FetchImages
    <3> QED BY <1>2, <3>1 DEF Worker
  <2>4. CASE CreateImage(s)
    <3>1. \E i : dosub' = [dosub EXCEPT ![s].pc = "link", ![s].image = i]
      BY <2>4 DEF CreateImage
    <3> QED BY <1>2, <3>1 DEF Worker
  <2> QED BY <2>1, <2>2, <2>3, <2>4, <2>5
<1>4. \A t \in Sub : processing_retries[t] \in Nat /\ dosub[t].at \in Nat
  BY CountTyped
<1>5. state[s] = "started"
  BY <1>1, AtWork
<1>6. \A t \in Sub : state[t] \in {"finished", "failed"} => state'[t] \in {"finished", "failed"}
  BY <1>1, <1>5 DEF IInv, SubsTyped
<1>7. \A t \in Sub : Active(t) => Active(t)' /\ dosub'[t].at >= dosub[t].at
  BY <1>3, <1>4 DEF Active
<1>8. \A t \in Sub : dosub[t].pc = "raised" => dosub'[t].pc = "raised"
  BY <1>1, <1>3
<1> QED BY <1>1, <1>4, <1>6, <1>7, <1>8 DEF NoCopy

\* The worker makes a UserImage of its file, the first of this attempt.
LEMMA CopyCounted ==
  ASSUME NoRepeat, CInv, IInv', NEW s \in Sub, create_user_image(s)
  PROVE  CopiesCounted'
<1> USE DEF CInv
<1>1. CASE dosub[s].image \notin images
  BY <1>1, DatabaseErrorNoCopy, NoCopyCounted DEF create_user_image
<1>2. CASE dosub[s].image \in images
  <2> DEFINE i == dosub[s].image
             v == [sub |-> s, image |-> i, n |-> Cardinality(Numbers(s, i)) + 1]
             g == FileOf(s)
  <2>1. /\ dosub[s].pc = "link" /\ uis' = uis \cup {v}
        /\ dosub' = [dosub EXCEPT ![s].pc = "file", ![s].at = @ + 1]
        /\ UNCHANGED <<state, processing_retries, starts, pc>>
    BY <1>2 DEF create_user_image, Numbers, SubRest, main
  <2>2. Active(s) /\ dosub[s].at <= Len(Contents[s]) /\ pc # "down" /\ state[s] = "started"
    BY <2>1, AtWork DEF Active, IInv, SubsPlaced, AtFile
  <2>3. /\ dosub[s].at \in DOMAIN Contents[s] /\ g = Contents[s][dosub[s].at]
        /\ dosub[s].at \in Nat /\ DOMAIN Contents[s] \subseteq Nat
    BY <2>2, FileTyped, CountTyped DEF FileOf
  <2>4. v.sub = s /\ v.image.file = g
    BY <2>1 DEF IInv, ImagesNumbered
  <2> HIDE DEF v, i
  <2>5. /\ dosub'[s].at = dosub[s].at + 1 /\ dosub'[s].pc = "file"
        /\ \A t \in Sub : t # s => dosub'[t] = dosub[t]
    <3>1. dosub \in [Sub -> Worker] /\ dosub[s] \in Worker
      BY DEF IInv, SubsTyped
    <3> QED BY <2>1, <3>1 DEF Worker
  <2> SUFFICES ASSUME NEW t \in Sub, NEW f \in File
               PROVE  Counted(t, f)'
    BY DEF CopiesCounted
  <2>6. Counted(t, f)
    BY DEF CopiesCounted
  <2>7. CASE t = s /\ f = g
    <3>1. ~Added(s, f)
      <4>1. \A k \in DOMAIN Contents[s] : Contents[s][k] = f => ~(k < dosub[s].at)
        BY <2>3, <2>7 DEF NoRepeat, Distinct
      <4> QED BY <2>1, <2>2, <4>1 DEF Added
    <3>2. Cardinality(Copies(s, f)) < starts + processing_retries[s]
      BY <2>6, <2>7, <3>1 DEF Counted
    <3>3. Added(s, f)'
      <4>1. dosub[s].at < dosub'[s].at
        BY <2>3, <2>5
      <4>2. Active(s)'
        BY <2>5 DEF Active
      <4> QED BY <2>3, <2>7, <4>1, <4>2 DEF Added
    <3>4. Copies(s, f)' = Copies(s, f) \cup {v}
      BY <2>1, <2>4, <2>7 DEF Copies
    <3>5. IsFiniteSet(Copies(s, f)) /\ Cardinality(Copies(s, f)) \in Nat
      BY <2>7, CopiesFinite
    <3>6. Cardinality(Copies(s, f) \cup {v}) <= Cardinality(Copies(s, f)) + 1
      BY <3>5, FS_AddElement
    <3>7. starts \in Nat /\ processing_retries[s] \in Nat
      BY CountTyped
    <3>8. Cardinality(Copies(s, f) \cup {v}) \in Nat
      <4>1. IsFiniteSet(Copies(s, f) \cup {v})
        BY <3>5, FS_AddElement
      <4> QED BY <4>1, FS_CardinalityType
    <3>9. Cardinality(Copies(s, f) \cup {v}) <= starts + processing_retries[s]
      BY <3>2, <3>5, <3>6, <3>7, <3>8
    <3>10. Cardinality(Copies(s, f)') <= starts' + processing_retries'[s]
      BY <2>1, <3>4, <3>9
    <3> QED BY <2>7, <3>3, <3>10 DEF Counted
  <2>8. CASE ~(t = s /\ f = g)
    <3>1. Copies(t, f)' = Copies(t, f)
      BY <2>1, <2>4, <2>8 DEF Copies
    <3>2. Added(t, f) => Added(t, f)'
      <4>1. CASE t = s
        <5>1. \A k \in DOMAIN Contents[s] : k < dosub[s].at => k < dosub'[s].at
          BY <2>3, <2>5
        <5> QED BY <2>1, <2>2, <2>5, <4>1, <5>1 DEF Added, Active
      <4>2. CASE t # s
        BY <2>1, <2>5, <4>2 DEF Added, Active
      <4> QED BY <4>1, <4>2
    <3> QED BY <2>1, <2>6, <3>1, <3>2 DEF Counted
  <2> QED BY <2>7, <2>8
<1> QED BY <1>1, <1>2

LEMMA StartCounted ==
  ASSUME CInv, IInv', Start
  PROVE  CopiesCounted'
<1> SUFFICES ASSUME NEW s \in Sub, NEW f \in File
             PROVE  Counted(s, f)'
  BY DEF CopiesCounted
<1>1. starts' = starts + 1 /\ UNCHANGED <<processing_retries, uis>>
  BY DEF Start
<1>2. starts \in Nat /\ processing_retries[s] \in Nat /\ Cardinality(Copies(s, f)) \in Nat
  BY CountTyped, CopiesFinite DEF CInv
<1>3. Copies(s, f)' = Copies(s, f)
  BY <1>1 DEF Copies
<1>4. Cardinality(Copies(s, f)) <= starts + processing_retries[s]
  BY DEF CInv, CopiesCounted, Counted
<1>5. Cardinality(Copies(s, f)) < starts + 1 + processing_retries[s]
  BY <1>2, <1>4
<1>6. Cardinality(Copies(s, f)') < starts' + processing_retries'[s]
  BY <1>1, <1>3, <1>5
<1>7. Cardinality(Copies(s, f)') <= starts' + processing_retries'[s]
  BY <1>1, <1>2, <1>3, <1>5
<1> QED BY <1>6, <1>7 DEF Counted

LEMMA NextCounted == NoRepeat /\ CInv /\ [Next]_vars => CInv'
<1> SUFFICES ASSUME NoRepeat, CInv, [Next]_vars PROVE CInv'
  OBVIOUS
<1>1. IInv /\ IInv'
  BY NextIInv DEF CInv
<1>2. NoCopy \/ Start \/ \E s \in Sub : create_user_image(s)
  <2>1. CASE \E s \in Sub : Submit(s)
    <3>1. PICK s \in Sub : Submit(s)
      BY <2>1
    <3>2. /\ UNCHANGED <<processing_retries, uis, starts, dosub, pc>> /\ state[s] = "absent"
          /\ state' = [state EXCEPT ![s] = "new"]
      BY <3>1 DEF Submit, main
    <3>3. \A t \in Sub : state'[t] = state[t] \/ state[t] \in {"absent", "new"}
      BY <1>1, <3>2 DEF IInv, SubsTyped
    <3> QED BY <1>1, <3>2, <3>3, SameNoCopy
  <2>2. CASE Kill
    BY <1>1, <2>2, DieNoCopy DEF Kill
  <2>3. CASE MainStep
    BY <1>1, <2>3, MainNoCopy
  <2>4. ASSUME NEW j \in DOMAIN dojob, JobStep(j)
        PROVE  NoCopy
    <3>1. UNCHANGED <<state, processing_retries, uis, starts, dosub, pc>>
      BY <2>4 DEF JobStep, BeginJob, EndJob, CatchJob, RaiseJob, SaveJob, JobRest, main
    <3> QED BY <1>1, <3>1, SameNoCopy
  <2>5. ASSUME NEW s \in Sub, SubStep(s)
        PROVE  NoCopy \/ create_user_image(s)
    <3>1. CASE BeginSub(s) \/ Lookup(s) \/ FetchImages(s) \/ DeleteDuplicate(s) \/ CreateImage(s)
      BY <1>1, <3>1, StaysNoCopy
    <3>2. CASE FinishSub(s)
      BY <1>1, <3>2, FinishedNoCopy DEF FinishSub
    <3>3. CASE SubFails(s)
      BY <1>1, <3>3, FinishedNoCopy, RaiseNoCopy DEF SubFails, Fails
    <3>4. CASE SubDatabaseError(s)
      BY <1>1, <3>4, DatabaseErrorNoCopy DEF SubDatabaseError
    <3> QED BY <2>5, <3>1, <3>2, <3>3, <3>4 DEF SubStep
  <2>6. CASE Stopped \/ UNCHANGED vars
    <3>1. UNCHANGED <<state, processing_retries, uis, starts, dosub, pc>>
      BY <2>6 DEF Stopped, vars, database, main
    <3> QED BY <1>1, <3>1, SameNoCopy
  <2> QED BY <2>1, <2>2, <2>3, <2>4, <2>5, <2>6 DEF Next, WorkerStep
<1>3. CopiesCounted'
  BY <1>1, <1>2, NoCopyCounted, StartCounted, CopyCounted DEF CInv
<1> QED BY <1>1, <1>3 DEF CInv

LEMMA InitCounted == Init => CInv
<1> SUFFICES ASSUME Init PROVE CInv
  OBVIOUS
<1>1. IInv
  BY InitIInv
<1>2. uis = {} /\ starts = 0 /\ pc = "down" /\ processing_retries = [s \in Sub |-> 0]
  BY Zenon DEF Init
<1>3. ASSUME NEW s \in Sub, NEW f \in File
      PROVE  Counted(s, f)
  <2>1. Copies(s, f) = {}
    BY <1>2 DEF Copies
  <2>2. Cardinality(Copies(s, f)) = 0
    BY <2>1, FS_EmptySet
  <2> QED BY <1>2, <2>2 DEF Counted, Added
<1> QED BY <1>1, <1>3 DEF CInv, CopiesCounted

\* If no submission has the same file twice, it has at most one UserImage of each
\* file for each start of the process and each retry, however many workers there
\* are and whatever they delete: no attempt makes two.
THEOREM OneCopyPerAttempt == NoRepeat => (Spec => []CopiesBounded)
<1> SUFFICES ASSUME NoRepeat PROVE Spec => []CopiesBounded
  OBVIOUS
<1>1. Init => CInv
  BY InitCounted
<1>2. CInv /\ [Next]_vars => CInv'
  BY NextCounted
<1>3. CInv => CopiesBounded
  BY DEF CInv, CopiesCounted, Counted, Copies, CopiesBounded
<1> QED BY <1>1, <1>2, <1>3, PTL DEF Spec

-----------------------------------------------------------------------------
(* Submissions that have no file in common. *)

LEMMA OnlyKept ==
  ASSUME OnlyImage, UNCHANGED <<images, uis>>,
         \A s \in Sub : \/ dosub'[s] = dosub[s]
                       \/ dosub'[s].pc \notin {"fetch", "create", "dedup", "link"}
  PROVE  OnlyImage'
<1>1. ASSUME NEW s \in Sub
      PROVE  Knows(s)'
  <2>1. CASE dosub'[s] = dosub[s]
    BY <2>1 DEF OnlyImage, Knows, FileOf
  <2>2. CASE dosub'[s].pc \notin {"fetch", "create", "dedup", "link"}
    BY <2>2 DEF Knows
  <2> QED BY <2>1, <2>2
<1> QED BY <1>1 DEF OnlyImage

LEMMA HasKept ==
  ASSUME IInv, HasImages, uis \subseteq uis',
         \A s \in Sub :
           /\ state'[s] = "finished" => state[s] = "finished"
           /\ Active(s)' => \/ Active(s) /\ dosub'[s].at = dosub[s].at
                            \/ dosub'[s].at = 1
  PROVE  HasImages'
<1> SUFFICES ASSUME NEW s \in Sub, NEW k \in DOMAIN Contents[s],
                    state'[s] = "finished" \/ (Active(s)' /\ k < dosub'[s].at)
             PROVE  \E u \in uis' : u.sub = s /\ u.image.file = Contents[s][k]
  BY DEF HasImages
<1>1. Contents[s] \in Seq(File) /\ k \in Nat \ {0}
  BY PipelineAssumption
<1>2. state[s] = "finished" \/ (Active(s) /\ k < dosub[s].at)
  BY <1>1
<1> QED BY <1>2 DEF HasImages

LEMMA DieApart ==
  ASSUME AInv, Die
  PROVE  OnlyImage' /\ HasImages'
<1>1. UNCHANGED <<images, uis, state>> /\ \A s \in Sub : dosub'[s] = Idle
  BY DEF Die
<1>2. OnlyImage'
  BY <1>1, OnlyKept, IdleWorker DEF AInv
<1>3. HasImages'
  BY <1>1, HasKept, IdleWorker DEF AInv, Active
<1> QED BY <1>2, <1>3

\* A step that leaves the submissions, their images and the workers as they are, but
\* for a worker that begins or has ended.
LEMMA SameApart ==
  ASSUME AInv, UNCHANGED <<images, uis>>,
         \A s \in Sub : state'[s] = "finished" => state[s] = "finished",
         \A s \in Sub :
           \/ dosub'[s] = dosub[s]
           \/ (dosub'[s].pc \in {"none", "queued", "ready", "raised"} /\ dosub'[s].at = 1)
  PROVE  OnlyImage' /\ HasImages'
<1>1. OnlyImage'
  BY OnlyKept DEF AInv
<1>2. HasImages'
  BY HasKept DEF AInv, Active
<1> QED BY <1>1, <1>2

LEMMA MainApart ==
  ASSUME AInv, MainStep
  PROVE  OnlyImage' /\ HasImages'
<1> USE DEF AInv
<1>1. CASE ScanSub
  <2> DEFINE s == subresults[at]
  <2>1. s \in Sub /\ qsubs[s] = 1
    BY <1>1 DEF ScanSub, IInv, SubsTyped, ResultsOfSubs
  <2>2. /\ UNCHANGED <<state, images, uis>>
        /\ dosub' = dosub \/ dosub' = [dosub EXCEPT ![s] = IF @.pc = "ready" THEN Idle ELSE @]
    BY <1>1, <2>1 DEF ScanSub, database
  <2> HIDE DEF s
  <2>3. \A t \in Sub : dosub'[t] = dosub[t] \/ (dosub'[t].pc = "none" /\ dosub'[t].at = 1)
    BY <2>1, <2>2, IdleWorker DEF IInv, SubsTyped
  <2> QED BY <2>2, <2>3, SameApart
<1>2. ASSUME NEW s \in Sub, QueueSub(s)
      PROVE  OnlyImage' /\ HasImages'
  <2>1. /\ UNCHANGED <<images, uis>>
        /\ state' = [state EXCEPT ![s] = "started"]
        /\ dosub' = [dosub EXCEPT ![s] = [Idle EXCEPT !.pc = "queued"]]
    BY <1>2 DEF QueueSub
  <2>2. /\ \A t \in Sub : t # s => dosub'[t] = dosub[t] /\ state'[t] = state[t]
        /\ dosub'[s].pc = "queued" /\ dosub'[s].at = 1 /\ state'[s] = "started"
    BY <2>1 DEF IInv, SubsTyped, Idle
  <2> QED BY <2>1, <2>2, SameApart
<1>3. ASSUME NEW s \in Sub, InlineSubDone(s)
      PROVE  OnlyImage' /\ HasImages'
  <2>1. UNCHANGED <<state, images, uis>> /\ dosub' = [dosub EXCEPT ![s] = Idle]
    BY <1>3 DEF InlineSubDone, database
  <2>2. \A t \in Sub : dosub'[t] = dosub[t] \/ (dosub'[t].pc = "none" /\ dosub'[t].at = 1)
    BY <2>1, IdleWorker DEF IInv, SubsTyped
  <2> QED BY <2>1, <2>2, SameApart
<1>4. CASE Die
  BY <1>4, DieApart
<1>5. CASE UNCHANGED <<state, images, uis, dosub>>
  BY <1>5, SameApart
<1>6. ScanJob => Die \/ UNCHANGED <<state, images, uis, dosub>>
  BY DEF ScanJob, database
<1>7. ASSUME NEW u \in newuis, QueueJob(u)
      PROVE  Die \/ UNCHANGED <<state, images, uis, dosub>>
  BY <1>7 DEF QueueJob
<1>8. Look \/ ScanSubsEnd \/ ScanJobsEnd \/ SubsQueued \/ InlineJobDone \/ JobsQueued =>
        UNCHANGED <<state, images, uis, dosub>>
  BY DEF Look, ScanSubsEnd, ScanJobsEnd, SubsQueued, InlineJobDone, JobsQueued, database
<1>9. (\E s \in Sub : InlineSubRaised(s)) \/ (\E j \in DOMAIN dojob : InlineJobRaised(j)) => Die
  BY DEF InlineSubRaised, InlineJobRaised
<1> QED BY <1>1, <1>2, <1>3, <1>4, <1>5, <1>6, <1>7, <1>8, <1>9 DEF MainStep

LEMMA OtherFile ==
  ASSUME Apart, IInv, NEW s \in Sub, NEW t \in Sub, s # t, AtFile(t),
         dosub[s].at <= Len(Contents[s])
  PROVE  FileOf(t) # FileOf(s)
<1>1. dosub[t].at <= Len(Contents[t])
  BY DEF IInv, SubsPlaced
<1>2. dosub[s].at \in DOMAIN Contents[s] /\ dosub[t].at \in DOMAIN Contents[t]
  BY <1>1, FileTyped
<1> QED BY <1>2 DEF Apart, FileOf

LEMMA LookupApart ==
  ASSUME Apart, AInv, NEW s \in Sub, Lookup(s)
  PROVE  OnlyImage' /\ HasImages'
<1> USE DEF AInv
<1>1. /\ dosub[s].pc = "file" /\ Active(s) /\ UNCHANGED <<state, images, uis>>
  BY DEF Lookup, Active
<1>2. dosub \in [Sub -> Worker] /\ dosub[s] \in Worker
  BY DEF IInv, SubsTyped
<1>3. /\ \A t \in Sub : t # s => dosub'[t] = dosub[t]
      /\ dosub'[s].at = dosub[s].at
      /\ \/ dosub'[s].pc = "create" /\ ImagesOf(s) = {}
         \/ dosub'[s].pc = "link" /\ ImagesOf(s) = {dosub'[s].image}
         \/ dosub'[s].pc = "fetch" /\ \E i, k \in ImagesOf(s) : i # k
  <2>1. ASSUME ImagesOf(s) = {}, dosub' = [dosub EXCEPT ![s].pc = "create"]
        PROVE  /\ \A t \in Sub : t # s => dosub'[t] = dosub[t]
               /\ dosub'[s].at = dosub[s].at /\ dosub'[s].pc = "create"
    BY <1>2, <2>1 DEF Worker
  <2>2. ASSUME NEW i, ImagesOf(s) = {i}, dosub' = [dosub EXCEPT ![s].pc = "link", ![s].image = i]
        PROVE  /\ \A t \in Sub : t # s => dosub'[t] = dosub[t]
               /\ dosub'[s].at = dosub[s].at /\ dosub'[s].pc = "link" /\ dosub'[s].image = i
    BY <1>2, <2>2 DEF Worker
  <2>3. ASSUME dosub' = [dosub EXCEPT ![s].pc = "fetch"]
        PROVE  /\ \A t \in Sub : t # s => dosub'[t] = dosub[t]
               /\ dosub'[s].at = dosub[s].at /\ dosub'[s].pc = "fetch"
    BY <1>2, <2>3 DEF Worker
  <2> QED BY <2>1, <2>2, <2>3 DEF Lookup
<1>4. ASSUME NEW t \in Sub
      PROVE  Knows(t)'
  <2>1. CASE t # s
    BY <1>1, <1>3, <2>1 DEF OnlyImage, Knows, FileOf
  <2>2. CASE t = s
    <3>1. FileOf(s)' = FileOf(s)
      BY <1>3 DEF FileOf
    <3>2. CASE dosub'[s].pc = "create" /\ ImagesOf(s) = {}
      BY <1>1, <2>2, <3>1, <3>2 DEF Knows, ImagesOf
    <3>3. CASE dosub'[s].pc = "link" /\ ImagesOf(s) = {dosub'[s].image}
      <4>1. dosub'[s].image \in ImagesOf(s) /\ \A i \in ImagesOf(s) : i = dosub'[s].image
        BY <3>3
      <4> QED BY <1>1, <2>2, <3>1, <3>3, <4>1 DEF Knows, ImagesOf
    <3>4. CASE dosub'[s].pc = "fetch" /\ \E i, k \in ImagesOf(s) : i # k
      <4>1. \A u \in uis : u.image.file # FileOf(s)
        BY <3>4 DEF OnlyImage, ImagesOf
      <4> QED BY <1>1, <2>2, <3>1, <3>4, <4>1 DEF Knows
    <3> QED BY <1>3, <3>2, <3>3, <3>4
  <2> QED BY <2>1, <2>2
<1>5. OnlyImage'
  BY <1>1, <1>4 DEF OnlyImage
<1>6. HasImages'
  <2>1. \A t \in Sub : Active(t)' => Active(t) /\ dosub'[t].at = dosub[t].at
    BY <1>1, <1>3 DEF Active
  <2> QED BY <1>1, <2>1, HasKept
<1> QED BY <1>5, <1>6

LEMMA FetchImagesApart ==
  ASSUME AInv, NEW s \in Sub, FetchImages(s)
  PROVE  OnlyImage' /\ HasImages'
<1> USE DEF AInv
<1>1. /\ dosub[s].pc = "fetch" /\ Active(s) /\ UNCHANGED <<state, images, uis>>
  BY DEF FetchImages, Active
<1>2. dosub \in [Sub -> Worker] /\ dosub[s] \in Worker
  BY DEF IInv, SubsTyped
<1>3. PICK i \in ImagesOf(s), p \in {"link", "dedup"} :
        /\ dosub' = [dosub EXCEPT ![s].image = i, ![s].others = ImagesOf(s) \ {i}, ![s].pc = p]
        /\ p = "link" => ImagesOf(s) = {i}
  <2>1. PICK i \in ImagesOf(s) :
          dosub' = [dosub EXCEPT ![s].image = i, ![s].others = ImagesOf(s) \ {i},
                                 ![s].pc = IF ImagesOf(s) = {i} THEN "link" ELSE "dedup"]
    BY DEF FetchImages
  <2>2. CASE ImagesOf(s) = {i}
    BY <2>1, <2>2
  <2>3. CASE ImagesOf(s) # {i}
    BY <2>1, <2>3
  <2> QED BY <2>2, <2>3
<1>4. /\ \A t \in Sub : t # s => dosub'[t] = dosub[t]
      /\ dosub'[s].at = dosub[s].at /\ dosub'[s].pc = p /\ dosub'[s].image = i
      /\ dosub'[s].others = ImagesOf(s) \ {i}
  BY <1>2, <1>3 DEF Worker
<1>5. \A u \in uis : u.image.file # FileOf(s)
  BY <1>1 DEF OnlyImage, Knows
<1>6. ASSUME NEW t \in Sub
      PROVE  Knows(t)'
  <2>1. CASE t # s
    BY <1>1, <1>4, <2>1 DEF OnlyImage, Knows, FileOf
  <2>2. CASE t = s
    <3>1. FileOf(s)' = FileOf(s)
      BY <1>4 DEF FileOf
    <3>2. i \in images /\ \A k \in ImagesOf(s) : k \in images /\ k.file = FileOf(s)
      BY DEF ImagesOf
    <3>3. \A k \in images : k.file = FileOf(s) => k \in ImagesOf(s)
      BY DEF ImagesOf
    <3>4. p = "link" => \A k \in images : k.file = FileOf(s) => k = i
      BY <1>3, <3>3
    <3> QED BY <1>1, <1>4, <1>5, <2>2, <3>1, <3>2, <3>3, <3>4 DEF Knows
  <2> QED BY <2>1, <2>2
<1>7. OnlyImage'
  BY <1>1, <1>6 DEF OnlyImage
<1>8. HasImages'
  <2>1. \A t \in Sub : Active(t)' => Active(t) /\ dosub'[t].at = dosub[t].at
    BY <1>1, <1>4 DEF Active
  <2> QED BY <1>1, <2>1, HasKept
<1> QED BY <1>7, <1>8

LEMMA DeleteDuplicateApart ==
  ASSUME Apart, AInv, NEW s \in Sub, DeleteDuplicate(s)
  PROVE  OnlyImage' /\ HasImages'
<1> USE DEF AInv
<1>1. PICK i \in dosub[s].others, p \in {"link", "dedup"} :
        /\ dosub[s].pc = "dedup" /\ images' = images \ {i}
        /\ uis' = {u \in uis : u.image # i} /\ state' = state
        /\ dosub' = [dosub EXCEPT ![s].others = @ \ {i}, ![s].pc = p]
        /\ p = "link" => dosub[s].others = {i}
  <2>1. PICK i \in dosub[s].others :
          /\ dosub[s].pc = "dedup" /\ images' = images \ {i}
          /\ uis' = {u \in uis : u.image # i} /\ state' = state
          /\ dosub' = [dosub EXCEPT ![s].others = @ \ {i},
                         ![s].pc = IF dosub[s].others = {i} THEN "link" ELSE "dedup"]
    BY DEF DeleteDuplicate
  <2>2. CASE dosub[s].others = {i}
    BY <2>1, <2>2
  <2>3. CASE dosub[s].others # {i}
    BY <2>1, <2>3
  <2> QED BY <2>2, <2>3
<1>2. Knows(s)
  BY DEF OnlyImage
<1>3. /\ i.file = FileOf(s) /\ i # dosub[s].image
      /\ dosub[s].image \in images /\ \A u \in uis : u.image.file # FileOf(s)
      /\ \A k \in images : k.file = FileOf(s) => k = dosub[s].image \/ k \in dosub[s].others
  BY <1>1, <1>2 DEF Knows
<1>4. uis' = uis
  BY <1>1, <1>3
<1>5. dosub \in [Sub -> Worker] /\ dosub[s] \in Worker
  BY DEF IInv, SubsTyped
<1>6. /\ \A t \in Sub : t # s => dosub'[t] = dosub[t]
      /\ dosub'[s].at = dosub[s].at /\ dosub'[s].image = dosub[s].image
      /\ dosub'[s].pc = p /\ dosub'[s].others = dosub[s].others \ {i}
  BY <1>1, <1>5 DEF Worker
<1>7. dosub[s].at <= Len(Contents[s]) /\ Active(s)
  BY <1>1 DEF IInv, SubsPlaced, AtFile, Active
<1>8. ASSUME NEW t \in Sub
      PROVE  Knows(t)'
  <2>1. CASE t # s
    <3>1. dosub'[t] = dosub[t] /\ FileOf(t)' = FileOf(t)
      BY <1>6, <2>1 DEF FileOf
    <3>2. ASSUME dosub[t].pc \in {"dedup", "link"}
          PROVE  dosub[t].image \in images'
      <4>1. FileOf(t) # FileOf(s)
        BY <1>7, <2>1, <3>2, OtherFile DEF AtFile
      <4>2. dosub[t].image \in images /\ dosub[t].image.file = FileOf(t)
        BY <3>2 DEF OnlyImage, Knows, IInv, ImagesNumbered
      <4> QED BY <1>1, <1>3, <4>1, <4>2
    <3>3. Knows(t) /\ images' \subseteq images
      BY <1>1 DEF OnlyImage
    <3> QED BY <1>4, <3>1, <3>2, <3>3 DEF Knows
  <2>2. CASE t = s
    <3>1. FileOf(s)' = FileOf(s)
      BY <1>6 DEF FileOf
    <3>2. dosub'[s].image \in images'
      BY <1>1, <1>3, <1>6
    <3>3. dosub'[s].pc = "link" => \A k \in images' : k.file = FileOf(s) => k = dosub'[s].image
      BY <1>1, <1>3, <1>6
    <3>4. /\ \A k \in images' : k.file = FileOf(s) => k = dosub'[s].image \/ k \in dosub'[s].others
          /\ \A k \in dosub'[s].others : k.file = FileOf(s) /\ k # dosub'[s].image
      BY <1>1, <1>2, <1>3, <1>6 DEF Knows
    <3> QED BY <1>3, <1>4, <1>6, <2>2, <3>1, <3>2, <3>3, <3>4 DEF Knows
  <2> QED BY <2>1, <2>2
<1>9. OnlyImage'
  BY <1>1, <1>4, <1>8 DEF OnlyImage
<1>10. HasImages'
  <2>1. \A t \in Sub : Active(t)' => Active(t) /\ dosub'[t].at = dosub[t].at
    BY <1>6, <1>7 DEF Active
  <2> QED BY <1>1, <1>4, <2>1, HasKept
<1> QED BY <1>9, <1>10

LEMMA CreateImageApart ==
  ASSUME Apart, AInv, NEW s \in Sub, CreateImage(s)
  PROVE  OnlyImage' /\ HasImages'
<1> USE DEF AInv
<1>1. PICK i : /\ i.file = FileOf(s) /\ images' = images \cup {i}
               /\ dosub' = [dosub EXCEPT ![s].pc = "link", ![s].image = i]
  BY DEF CreateImage
<1>2. dosub[s].pc = "create" /\ UNCHANGED <<state, uis>>
  BY DEF CreateImage
<1>3. dosub \in [Sub -> Worker] /\ dosub[s] \in Worker
  BY DEF IInv, SubsTyped
<1>4. /\ \A t \in Sub : t # s => dosub'[t] = dosub[t]
      /\ dosub'[s].at = dosub[s].at /\ dosub'[s].image = i /\ dosub'[s].pc = "link"
  BY <1>1, <1>3 DEF Worker
<1>5. /\ \A k \in images : k.file # FileOf(s)
      /\ dosub[s].at <= Len(Contents[s]) /\ Active(s)
  BY <1>2 DEF OnlyImage, Knows, IInv, SubsPlaced, AtFile, Active
<1>6. OnlyImage'
  <2>1. ASSUME NEW t \in Sub
        PROVE  Knows(t)'
    <3>1. CASE t # s /\ AtFile(t)
      <4>1. dosub'[t] = dosub[t] /\ FileOf(t)' = FileOf(t) /\ FileOf(t) # FileOf(s)
        BY <1>4, <1>5, <3>1, OtherFile DEF FileOf
      <4>2. \A k \in images' : k \in images \/ k.file # FileOf(t)
        BY <1>1, <4>1
      <4>3. Knows(t) /\ images \subseteq images'
        BY <1>1 DEF OnlyImage
      <4> QED BY <1>2, <4>1, <4>2, <4>3 DEF Knows
    <3>2. CASE t # s /\ ~AtFile(t)
      BY <1>4, <3>2 DEF Knows, AtFile
    <3>3. CASE t = s
      <4>1. FileOf(s)' = FileOf(s)
        BY <1>4 DEF FileOf
      <4>2. i \in images' /\ \A k \in images' : k.file = FileOf(s) => k = i
        BY <1>1, <1>5
      <4> QED BY <1>4, <3>3, <4>1, <4>2 DEF Knows
    <3> QED BY <3>1, <3>2, <3>3
  <2>2. \A u \in uis', k \in images' : k.file = u.image.file => k = u.image
    <3>1. \A u \in uis : u.image \in images
      BY DEF IInv, ImagesNumbered
    <3> QED BY <1>1, <1>2, <1>5, <3>1 DEF OnlyImage
  <2> QED BY <2>1, <2>2 DEF OnlyImage
<1>7. HasImages'
  <2>1. \A t \in Sub : Active(t)' => Active(t) /\ dosub'[t].at = dosub[t].at
    BY <1>4, <1>5 DEF Active
  <2> QED BY <1>2, <2>1, HasKept
<1> QED BY <1>6, <1>7

LEMMA CreateUserImageApart ==
  ASSUME Apart, AInv, NEW s \in Sub, create_user_image(s)
  PROVE  OnlyImage' /\ HasImages'
<1> USE DEF AInv
<1> DEFINE i == dosub[s].image
           v == [sub |-> s, image |-> i, n |-> Cardinality(Numbers(s, i)) + 1]
<1>1. dosub[s].pc = "link" /\ i \in images /\ \A k \in images : k.file = FileOf(s) => k = i
  BY DEF create_user_image, OnlyImage, Knows
<1>2. /\ uis' = uis \cup {v}
      /\ dosub' = [dosub EXCEPT ![s].pc = "file", ![s].at = @ + 1]
      /\ UNCHANGED <<state, images>>
  BY <1>1 DEF create_user_image, Numbers
<1>3. v.sub = s /\ v.image = i /\ i.file = FileOf(s)
  BY <1>1 DEF IInv, ImagesNumbered
<1> HIDE DEF v, i
<1>4. /\ dosub'[s].at = dosub[s].at + 1 /\ dosub'[s].pc = "file"
      /\ \A t \in Sub : t # s => dosub'[t] = dosub[t]
  <2>1. dosub \in [Sub -> Worker] /\ dosub[s] \in Worker
    BY DEF IInv, SubsTyped
  <2> QED BY <1>2, <2>1 DEF Worker
<1>5. dosub[s].at <= Len(Contents[s]) /\ Active(s) /\ state[s] = "started"
  BY <1>1, AtWork DEF IInv, SubsPlaced, AtFile, Active
<1>6. OnlyImage'
  <2>1. ASSUME NEW t \in Sub
        PROVE  Knows(t)'
    <3>1. CASE t # s /\ AtFile(t)
      <4>1. dosub'[t] = dosub[t] /\ FileOf(t)' = FileOf(t) /\ FileOf(t) # FileOf(s)
        BY <1>4, <1>5, <3>1, OtherFile DEF FileOf
      <4>2. \A u \in uis' : u \in uis \/ u.image.file # FileOf(t)
        BY <1>2, <1>3, <4>1
      <4>3. Knows(t) /\ images' = images
        BY <1>2 DEF OnlyImage
      <4>4. dosub[t].pc \in {"fetch", "dedup"} => \A u \in uis' : u.image.file # FileOf(t)
        BY <4>2, <4>3 DEF Knows
      <4> QED BY <4>1, <4>3, <4>4 DEF Knows
    <3>2. CASE t # s /\ ~AtFile(t)
      BY <1>4, <3>2 DEF Knows, AtFile
    <3>3. CASE t = s
      BY <1>4, <3>3 DEF Knows
    <3> QED BY <3>1, <3>2, <3>3
  <2>2. \A u \in uis', k \in images' : k.file = u.image.file => k = u.image
    BY <1>1, <1>2, <1>3 DEF OnlyImage
  <2> QED BY <2>1, <2>2 DEF OnlyImage
<1>7. HasImages'
  <2> SUFFICES ASSUME NEW t \in Sub, NEW k \in DOMAIN Contents[t],
                      state'[t] = "finished" \/ (Active(t)' /\ k < dosub'[t].at)
               PROVE  \E u \in uis' : u.sub = t /\ u.image.file = Contents[t][k]
    BY DEF HasImages
  <2>1. CASE state[t] = "finished" \/ (Active(t) /\ k < dosub[t].at)
    BY <1>2, <2>1 DEF HasImages
  <2>2. CASE ~(state[t] = "finished" \/ (Active(t) /\ k < dosub[t].at))
    <3>1. t = s
      BY <1>2, <1>4, <2>2 DEF Active
    <3>2. k = dosub[s].at
      <4>1. k \in Nat /\ dosub[s].at \in Nat /\ k < dosub[s].at + 1 /\ ~(k < dosub[s].at)
        BY <1>2, <1>4, <1>5, <2>2, <3>1, CountTyped
      <4> QED BY <4>1
    <3> QED BY <1>2, <1>3, <3>1, <3>2 DEF FileOf
  <2> QED BY <2>1, <2>2
<1> QED BY <1>6, <1>7

\* The worker ends, begins again, raises, or has begun.
LEMMA EndsApart ==
  ASSUME AInv, NEW s \in Sub,
         BeginSub(s) \/ FinishSub(s) \/ SubFails(s) \/ SubDatabaseError(s)
  PROVE  OnlyImage' /\ HasImages'
<1> USE DEF AInv
<1>1. dosub \in [Sub -> Worker] /\ dosub[s] \in Worker
  BY DEF IInv, SubsTyped
<1>2. UNCHANGED <<images, uis>>
  BY DEF BeginSub, FinishSub, SubFails, SubDatabaseError, Fails, DatabaseError, Finished, Raise
<1>3. CASE BeginSub(s)
  <2>1. /\ state' = [state EXCEPT ![s] = "started"] /\ dosub' = [dosub EXCEPT ![s].pc = "file"]
        /\ Active(s)
    BY <1>3 DEF BeginSub, Active
  <2>2. /\ \A t \in Sub : t # s => dosub'[t] = dosub[t] /\ state'[t] = state[t]
        /\ dosub'[s].pc = "file" /\ dosub'[s].at = dosub[s].at /\ state'[s] = "started"
    BY <1>1, <2>1 DEF Worker, IInv, SubsTyped
  <2>3. OnlyImage'
    BY <1>2, <2>2, OnlyKept
  <2>4. HasImages'
    BY <1>2, <2>1, <2>2, HasKept DEF Active
  <2> QED BY <2>3, <2>4
<1>4. ASSUME NEW p \in {"queued", "ready", "raised"},
             dosub' = [dosub EXCEPT ![s] = [Idle EXCEPT !.pc = p]],
             \A t \in Sub : state'[t] = "finished" => state[t] = "finished"
      PROVE  OnlyImage' /\ HasImages'
  <2>1. \A t \in Sub : dosub'[t] = dosub[t] \/ (dosub'[t].pc = p /\ dosub'[t].at = 1)
    BY <1>1, <1>4 DEF Idle
  <2> QED BY <1>2, <1>4, <2>1, SameApart
<1>5. CASE Raise(s)
  BY <1>4, <1>5 DEF Raise
<1>6. CASE Finished(s, "failed")
  <2>1. \A t \in Sub : state'[t] = "finished" => state[t] = "finished"
    BY <1>6 DEF Finished, IInv, SubsTyped
  <2> QED BY <1>4, <1>6, <2>1 DEF Finished
<1>7. CASE DatabaseError(s)
  BY <1>4, <1>5, <1>6, <1>7 DEF DatabaseError
<1>8. CASE FinishSub(s)
  <2>1. /\ state' = [state EXCEPT ![s] = "finished"]
        /\ dosub' = [dosub EXCEPT ![s] = [Idle EXCEPT !.pc = "ready"]]
        /\ Active(s) /\ dosub[s].at > Len(Contents[s])
    BY <1>8 DEF FinishSub, Finished, Active
  <2>2. /\ \A t \in Sub : t # s => dosub'[t] = dosub[t] /\ state'[t] = state[t]
        /\ dosub'[s].pc = "ready"
    BY <1>1, <2>1 DEF Idle, IInv, SubsTyped
  <2>3. OnlyImage'
    BY <1>2, <2>2, OnlyKept
  <2>4. HasImages'
    <3> SUFFICES ASSUME NEW t \in Sub, NEW k \in DOMAIN Contents[t],
                        state'[t] = "finished" \/ (Active(t)' /\ k < dosub'[t].at)
                 PROVE  \E u \in uis' : u.sub = t /\ u.image.file = Contents[t][k]
      BY DEF HasImages
    <3>1. CASE t # s
      BY <1>2, <2>2, <3>1 DEF HasImages, Active
    <3>2. CASE t = s
      <4>1. Contents[s] \in Seq(File) /\ k \in Nat /\ k <= Len(Contents[s]) /\ Len(Contents[s]) \in Nat
        BY <3>2, PipelineAssumption
      <4>2. k < dosub[s].at
        BY <2>1, <4>1, CountTyped
      <4> QED BY <1>2, <2>1, <3>2, <4>2 DEF HasImages
    <3> QED BY <3>1, <3>2
  <2> QED BY <2>3, <2>4
<1>9. CASE SubFails(s)
  BY <1>5, <1>6, <1>9 DEF SubFails, Fails
<1>10. CASE SubDatabaseError(s)
  BY <1>7, <1>10 DEF SubDatabaseError
<1> QED BY <1>3, <1>8, <1>9, <1>10

LEMMA NextApart == Apart /\ AInv /\ [Next]_vars => AInv'
<1> SUFFICES ASSUME Apart, AInv, [Next]_vars PROVE AInv'
  OBVIOUS
<1>1. IInv /\ IInv'
  BY NextIInv DEF AInv
<1>2. CASE MainStep
  BY <1>1, <1>2, MainApart DEF AInv
<1>3. ASSUME NEW s \in Sub, SubStep(s)
      PROVE  AInv'
  <2>1. CASE Lookup(s)
    BY <1>1, <2>1, LookupApart DEF AInv
  <2>2. CASE FetchImages(s)
    BY <1>1, <2>2, FetchImagesApart DEF AInv
  <2>3. CASE DeleteDuplicate(s)
    BY <1>1, <2>3, DeleteDuplicateApart DEF AInv
  <2>4. CASE CreateImage(s)
    BY <1>1, <2>4, CreateImageApart DEF AInv
  <2>5. CASE create_user_image(s)
    BY <1>1, <2>5, CreateUserImageApart DEF AInv
  <2>6. CASE BeginSub(s) \/ FinishSub(s) \/ SubFails(s) \/ SubDatabaseError(s)
    BY <1>1, <2>6, EndsApart DEF AInv
  <2> QED BY <1>3, <2>1, <2>2, <2>3, <2>4, <2>5, <2>6 DEF SubStep
<1>4. ASSUME UNCHANGED <<images, uis, dosub>>,
             \A s \in Sub : state'[s] = "finished" => state[s] = "finished"
      PROVE  AInv'
  BY <1>1, <1>4, SameApart DEF AInv
<1>5. CASE \E s \in Sub : Submit(s)
  <2>1. PICK s \in Sub : Submit(s)
    BY <1>5
  <2>2. UNCHANGED <<images, uis, dosub>> /\ state' = [state EXCEPT ![s] = "new"]
    BY <2>1 DEF Submit
  <2>3. \A t \in Sub : state'[t] = "finished" => state[t] = "finished"
    BY <1>1, <2>2 DEF IInv, SubsTyped
  <2> QED BY <1>4, <2>2, <2>3
<1>6. CASE Kill
  BY <1>1, <1>6, DieApart DEF Kill, AInv
<1>7. CASE Start
  BY <1>4, <1>7 DEF Start
<1>8. ASSUME NEW j \in DOMAIN dojob, JobStep(j)
      PROVE  AInv'
  <2>1. UNCHANGED <<state, images, uis, dosub>>
    BY <1>8 DEF JobStep, BeginJob, EndJob, CatchJob, RaiseJob, SaveJob, JobRest
  <2> QED BY <1>4, <2>1
<1>9. CASE Stopped \/ UNCHANGED vars
  <2>1. UNCHANGED <<state, images, uis, dosub>>
    BY <1>9 DEF Stopped, vars, database
  <2> QED BY <1>4, <2>1
<1> QED BY <1>2, <1>3, <1>5, <1>6, <1>7, <1>8, <1>9 DEF Next, WorkerStep

LEMMA InitApart == Init => AInv
<1> SUFFICES ASSUME Init PROVE AInv
  OBVIOUS
<1>1. IInv
  BY InitIInv
<1>2. uis = {} /\ state = [s \in Sub |-> "absent"] /\ dosub = [s \in Sub |-> Idle]
  BY Zenon DEF Init
<1>3. \A s \in Sub : dosub[s].pc = "none" /\ state[s] = "absent"
  BY <1>2, IdleWorker
<1>4. OnlyImage
  BY <1>2, <1>3 DEF OnlyImage, Knows
<1>5. HasImages
  BY <1>3 DEF HasImages, Active
<1> QED BY <1>1, <1>4, <1>5 DEF AInv

LEMMA AlwaysApart == Apart => (Spec => []AInv)
<1> SUFFICES ASSUME Apart PROVE Spec => []AInv
  OBVIOUS
<1>1. Init => AInv
  BY InitApart
<1>2. AInv /\ [Next]_vars => AInv'
  BY NextApart
<1> QED BY <1>1, <1>2, PTL DEF Spec

-----------------------------------------------------------------------------
(* What follows if no two submissions have a file in common. *)

\* A submission that is finished without error has a UserImage of each of its files,
\* even where its worker deleted duplicates that earlier submissions had left.
\* (The run pipeline_shared shows that the condition is needed.)
THEOREM FinishedIsComplete == Apart => (Spec => []FinishedHasImages)
<1> SUFFICES ASSUME Apart PROVE Spec => []FinishedHasImages
  OBVIOUS
<1>1. Spec => []AInv
  BY AlwaysApart
<1>2. AInv => FinishedHasImages
  BY DEF AInv, HasImages, FinishedHasImages
<1> QED BY <1>1, <1>2, PTL

-----------------------------------------------------------------------------
(* What the main process dies of. *)

\* The row of a job that is waited for is there, or its UserImage is gone.
RowsKept == \A k \in DOMAIN jobresults : jobresults[k] \in qjobs \/ jobresults[k].ui \notin uis

MInv == IInv /\ RowsKept

LEMMA SameRows ==
  ASSUME RowsKept, UNCHANGED <<jobresults, qjobs, uis>>
  PROVE  RowsKept'
BY DEF RowsKept

LEMMA DieRows ==
  ASSUME Die
  PROVE  RowsKept'
<1>1. DOMAIN jobresults' = {}
  BY DEF Die
<1> QED BY <1>1 DEF RowsKept

LEMMA ScanJobRows ==
  ASSUME MInv, ScanJob
  PROVE  RowsKept'
<1> DEFINE j == jobresults[at]
<1>1. CASE dojob[j] \notin {"ready", "raised"}
  BY <1>1, SameRows DEF ScanJob, MInv, database, results
<1>2. CASE dojob[j] \in {"ready", "raised"} /\ j \in qjobs
  <2>1. jobresults' = RemoveAt(jobresults, at) /\ qjobs' = qjobs \ {j} /\ uis' = uis
    BY <1>2 DEF ScanJob
  <2>2. jobresults \in Seq(JobId) /\ at \in 1..Len(jobresults) /\ Distinct(jobresults)
    BY DEF ScanJob, MInv, IInv, SubsTyped, JobsTyped, ResultsOfJobs
  <2>3. \A k \in DOMAIN jobresults' : \E l \in DOMAIN jobresults :
          jobresults'[k] = jobresults[l] /\ jobresults[l] # j
    <3>1. \A k \in DOMAIN RemoveAt(jobresults, at) : \E l \in DOMAIN jobresults :
            RemoveAt(jobresults, at)[k] = jobresults[l] /\ jobresults[l] # jobresults[at]
      BY <2>2, RemovedAt, ZenonT(30)
    <3> QED BY <2>1, <3>1
  <2> HIDE DEF j
  <2> QED BY <2>1, <2>3 DEF MInv, RowsKept
<1>3. CASE dojob[j] \in {"ready", "raised"} /\ j \notin qjobs
  BY <1>3, DieRows DEF ScanJob
<1> QED BY <1>1, <1>2, <1>3

LEMMA QueueJobRows ==
  ASSUME MInv, NEW u \in newuis, QueueJob(u)
  PROVE  RowsKept'
<1>1. CASE u \notin uis
  BY <1>1, DieRows DEF QueueJob
<1>2. CASE u \in uis
  <2>1. PICK j : /\ qjobs' = qjobs \cup {j} /\ uis' = uis
                 /\ jobresults' \in {jobresults, Append(jobresults, j)}
    BY <1>2 DEF QueueJob
  <2>2. jobresults \in Seq(JobId)
    BY DEF MInv, IInv, JobsTyped
  <2>3. CASE jobresults' = jobresults
    BY <2>1, <2>3 DEF MInv, RowsKept
  <2>4. CASE jobresults' = Append(jobresults, j)
    <3>1. \A k \in DOMAIN jobresults' :
            jobresults'[k] = j \/ (k \in DOMAIN jobresults /\ jobresults'[k] = jobresults[k])
      BY <2>2, <2>4
    <3> QED BY <2>1, <3>1 DEF MInv, RowsKept
  <2> QED BY <2>1, <2>3, <2>4
<1> QED BY <1>1, <1>2

LEMMA MainRows ==
  ASSUME MInv, MainStep
  PROVE  RowsKept'
<1>1. CASE ScanJob
  BY <1>1, ScanJobRows
<1>2. ASSUME NEW u \in newuis, QueueJob(u)
      PROVE  RowsKept'
  BY <1>2, QueueJobRows
<1>3. CASE Die
  BY <1>3, DieRows
<1>4. CASE UNCHANGED <<jobresults, qjobs, uis>>
  BY <1>4, SameRows DEF MInv
<1>5. ScanSub => Die \/ UNCHANGED <<jobresults, qjobs, uis>>
  BY DEF ScanSub, database, results
<1>6. ASSUME NEW s \in Sub
      PROVE  /\ QueueSub(s) \/ InlineSubDone(s) => UNCHANGED <<jobresults, qjobs, uis>>
             /\ InlineSubRaised(s) => Die
  BY DEF QueueSub, InlineSubDone, InlineSubRaised, database, results
<1>7. Look \/ ScanSubsEnd \/ ScanJobsEnd \/ SubsQueued \/ InlineJobDone \/ JobsQueued =>
        UNCHANGED <<jobresults, qjobs, uis>>
  BY DEF Look, ScanSubsEnd, ScanJobsEnd, SubsQueued, InlineJobDone, JobsQueued, database, results
<1>8. (\E j \in DOMAIN dojob : InlineJobRaised(j)) => Die
  BY DEF InlineJobRaised
<1> QED BY <1>1, <1>2, <1>3, <1>4, <1>5, <1>6, <1>7, <1>8 DEF MainStep

\* A worker deletes rows only with their UserImages, and makes none that is gone again.
LEMMA SubRows ==
  ASSUME MInv, NEW s \in Sub, SubStep(s)
  PROVE  RowsKept'
<1>1. CASE DeleteDuplicate(s)
  <2>1. PICK i : /\ uis' = {u \in uis : u.image # i}
                 /\ qjobs' = {j \in qjobs : j.ui.image # i} /\ jobresults' = jobresults
    BY <1>1 DEF DeleteDuplicate, main, results
  <2> QED BY <2>1 DEF MInv, RowsKept
<1>2. CASE create_user_image(s) /\ dosub[s].image \in images
  <2>1. PICK v : /\ v.image \in images /\ uis' = uis \cup {v}
                 /\ UNCHANGED <<jobresults, qjobs>>
    BY <1>2 DEF create_user_image, SubRest, main, results
  <2>2. \A k \in DOMAIN jobresults : Past(jobresults[k].ui)
    BY DEF MInv, IInv, JobsPlaced, ResultsOfJobs
  <2> QED BY <2>1, <2>2 DEF MInv, RowsKept, Past
<1>3. CASE create_user_image(s) /\ dosub[s].image \notin images
  <2>1. UNCHANGED <<jobresults, qjobs, uis>>
    BY <1>3 DEF create_user_image, DatabaseError, Finished, Raise, SubRest, main, results
  <2> QED BY <2>1, SameRows DEF MInv
<1>4. CASE BeginSub(s) \/ Lookup(s) \/ FetchImages(s) \/ CreateImage(s) \/ FinishSub(s)
             \/ SubFails(s) \/ SubDatabaseError(s)
  <2>1. UNCHANGED <<jobresults, qjobs, uis>>
    BY <1>4 DEF BeginSub, Lookup, FetchImages, CreateImage, FinishSub, SubFails, SubDatabaseError,
                Fails, DatabaseError, Finished, Raise, SubRest, main, results
  <2> QED BY <2>1, SameRows DEF MInv
<1> QED BY <1>1, <1>2, <1>3, <1>4 DEF SubStep

LEMMA NextRows == MInv /\ [Next]_vars => MInv'
<1> SUFFICES ASSUME MInv, [Next]_vars PROVE MInv'
  OBVIOUS
<1>1. IInv'
  BY NextIInv DEF MInv
<1>2. ASSUME UNCHANGED <<jobresults, qjobs, uis>>
      PROVE  RowsKept'
  BY <1>2, SameRows DEF MInv
<1>3. ASSUME NEW s \in Sub
      PROVE  Submit(s) => UNCHANGED <<jobresults, qjobs, uis>>
  BY DEF Submit, main, results
<1>4. ASSUME NEW j \in DOMAIN dojob
      PROVE  JobStep(j) => UNCHANGED <<jobresults, qjobs, uis>>
  BY DEF JobStep, BeginJob, EndJob, CatchJob, RaiseJob, SaveJob, JobRest, main, results
<1>5. Start \/ Stopped \/ UNCHANGED vars => UNCHANGED <<jobresults, qjobs, uis>>
  BY DEF Start, Stopped, vars, database, main, results
<1>6. RowsKept'
  <2>1. CASE Kill
    BY <2>1, DieRows DEF Kill
  <2>2. CASE MainStep
    BY <2>2, MainRows
  <2>3. CASE WorkerStep
    BY <1>2, <1>4, <2>3, SubRows DEF WorkerStep
  <2> QED BY <1>2, <1>3, <1>5, <2>1, <2>2, <2>3 DEF Next
<1> QED BY <1>1, <1>6 DEF MInv

\* Whatever the main process dies of is gone with its image.
LEMMA RowLost ==
  ASSUME MInv, [Next]_vars, ~lost, lost'
  PROVE  \E u \in newuis \cup {j.ui : j \in DOMAIN dojob} : u.image \notin images
<1>1. ASSUME NEW j \in DOMAIN dojob, j.ui \notin uis
      PROVE  \E u \in newuis \cup {k.ui : k \in DOMAIN dojob} : u.image \notin images
  BY <1>1 DEF MInv, IInv, JobsPlaced, Past
<1>2. CASE UNCHANGED lost
  BY <1>2
<1>3. CASE ScanSub
  <2>1. qsubs[subresults[at]] = 1
    BY <1>3 DEF ScanSub, MInv, IInv, SubsTyped, ResultsOfSubs
  <2> QED BY <1>3, <2>1 DEF ScanSub
<1>4. CASE ScanJob
  <2>1. at \in DOMAIN jobresults
    BY <1>4 DEF ScanJob, MInv, IInv, SubsTyped, JobsTyped
  <2>2. UNCHANGED lost \/ jobresults[at] \notin qjobs
    BY <1>4 DEF ScanJob
  <2> QED BY <1>1, <1>2, <2>1, <2>2 DEF MInv, RowsKept, IInv, ResultsOfJobs
<1>5. ASSUME NEW u \in newuis, QueueJob(u)
      PROVE  \E v \in newuis \cup {j.ui : j \in DOMAIN dojob} : v.image \notin images
  <2>1. u \notin uis
    BY <1>5 DEF QueueJob
  <2> QED BY <2>1 DEF MInv, IInv, JobsPlaced, Past
<1>6. ASSUME NEW j \in DOMAIN dojob, InlineJobRaised(j)
      PROVE  \E u \in newuis \cup {k.ui : k \in DOMAIN dojob} : u.image \notin images
  <2>1. j \notin DOMAIN jobs
    BY <1>6 DEF InlineJobRaised
  <2> QED BY <1>1, <2>1 DEF MInv, IInv, JobsPlaced
<1>7. ~Start
  BY DEF Start
<1>8. ASSUME NEW s \in Sub
      PROVE  /\ Submit(s) => UNCHANGED lost
             /\ QueueSub(s) \/ InlineSubDone(s) \/ InlineSubRaised(s) => UNCHANGED lost
             /\ SubStep(s) => UNCHANGED lost
  BY DEF Submit, QueueSub, InlineSubDone, InlineSubRaised, SubStep, BeginSub, Lookup, FetchImages,
         DeleteDuplicate, CreateImage, create_user_image, FinishSub, SubFails, SubDatabaseError,
         SubRest, main
<1>9. ASSUME NEW j \in DOMAIN dojob
      PROVE  JobStep(j) => UNCHANGED lost
  BY DEF JobStep, BeginJob, EndJob, CatchJob, RaiseJob, SaveJob, JobRest, main
<1>10. Kill \/ Look \/ ScanSubsEnd \/ ScanJobsEnd \/ SubsQueued \/ InlineJobDone \/ JobsQueued
         \/ Stopped \/ UNCHANGED vars => UNCHANGED lost
  BY DEF Kill, Look, ScanSubsEnd, ScanJobsEnd, SubsQueued, InlineJobDone, JobsQueued, Stopped,
         vars, main
<1> QED BY <1>2, <1>3, <1>4, <1>5, <1>6, <1>7, <1>8, <1>9, <1>10 DEF Next, MainStep, WorkerStep

\* If the main process dies of a row that is gone or doubled, some worker has deleted
\* the image of a job it has in hand or of a row it was about to queue: whatever files
\* the submissions have in common, and whichever workers raise.
THEOREM MainGoesOn == Spec => MainSurvives
<1>1. Init => MInv
  <2>1. Init => RowsKept
    BY DEF Init, RowsKept
  <2> QED BY <2>1, InitIInv DEF MInv
<1>2. MInv /\ [Next]_vars => MInv'
  BY NextRows
<1>3. MInv /\ [Next]_vars =>
        [~lost /\ lost' =>
           \E u \in newuis \cup {j.ui : j \in DOMAIN dojob} : u.image \notin images]_vars
  BY RowLost
<1> QED BY <1>1, <1>2, <1>3, PTL DEF Spec, MainSurvives

=============================================================================
