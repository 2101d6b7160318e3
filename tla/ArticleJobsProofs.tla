------------------------- MODULE ArticleJobsProofs -------------------------
(***************************************************************************)
(* Theorems about ArticleJobs, for every value of its constants: how a     *)
(* step may change the table of jobs, then the inductive invariant IInv    *)
(* and the properties that follow from it.                                 *)
(***************************************************************************)
EXTENDS ArticleJobs, TLAPS, SequenceTheorems

----------------------------------------------------------------------------
\* Changes of the table.

\* The table as a function on its indices.
LEMMA JobsShape ==
    ASSUME TypeOK
    PROVE  /\ Len(jobs) \in Nat
           /\ DOMAIN jobs = 1 .. Len(jobs)
           /\ Len(jobs) <= MaxJobs
           /\ jobs \in [1 .. Len(jobs) -> JobRows]
           /\ queue \subseteq 1 .. Len(jobs)
<1>1. jobs \in Seq(JobRows) /\ Len(jobs) <= MaxJobs /\ queue \subseteq DOMAIN jobs
  BY DEF TypeOK
<1> QED
  BY <1>1, LenProperties

\* What a step may do to the table: rows keep their article, their claim once
\* they have one, and everything once they are closed; at most one row is added,
\* unclaimed, for an article without an active job.
Grows ==
    /\ jobs' \in Seq(JobRows)
    /\ Len(jobs') \in {Len(jobs), Len(jobs) + 1}
    /\ Len(jobs') <= MaxJobs
    /\ \A i \in DOMAIN jobs :
          /\ jobs'[i].article = jobs[i].article
          /\ jobs[i].owner # NoOwner => jobs'[i].owner = jobs[i].owner
          /\ jobs[i].state \notin Active =>
                jobs'[i].state = jobs[i].state /\ jobs'[i].reason = jobs[i].reason
    /\ Len(jobs') = Len(jobs) + 1 =>
          /\ jobs'[Len(jobs) + 1].owner = NoOwner
          /\ ~HasActive(jobs'[Len(jobs) + 1].article)

LEMMA NewJobType ==
    ASSUME NEW a \in Articles, NEW force \in BOOLEAN
    PROVE  NewJob(a, force) \in JobRows
<1>1. Lifetime \in Nat /\ RunningLimit \in Nat
  BY JobConstants
<1>2. Lifetime \in 0 .. Lifetime /\ 0 \in 0 .. RunningLimit /\ 0 \in Nat
  BY <1>1
<1> QED
  BY <1>2, Zenon DEF NewJob, JobRows, JobStates, Active, Reasons, Verdicts

LEMMA ClosedType ==
    ASSUME NEW job \in JobRows, NEW s \in JobStates, NEW r \in Reasons
    PROVE  /\ Closed(job, s, r) \in JobRows
           /\ Closed(job, s, r).article = job.article
           /\ Closed(job, s, r).owner = job.owner
<1>1. 0 \in 0 .. Lifetime /\ 0 \in 0 .. RunningLimit /\ 0 \in Nat
  BY JobConstants
<1>2. Closed(job, s, r) \in JobRows
  BY <1>1, Zenon DEF Closed, JobRows
<1> QED
  BY <1>2 DEF Closed, JobRows

LEMMA GrowsNot == ASSUME TypeOK, jobs' = jobs PROVE Grows
BY JobsShape DEF Grows, TypeOK

LEMMA GrowsByInsert ==
    ASSUME TypeOK, NEW a \in Articles, NEW force \in BOOLEAN, Insert(a, force)
    PROVE  Grows /\ (\A i \in DOMAIN jobs : jobs'[i] = jobs[i])
<1>1. NewJob(a, force) \in JobRows
  BY NewJobType
<1>2. jobs' = Append(jobs, NewJob(a, force)) /\ ~HasActive(a) /\ Len(jobs) < MaxJobs
  BY DEF Insert
<1>3. jobs \in Seq(JobRows)
  BY DEF TypeOK
<1>4. /\ jobs' \in Seq(JobRows)
      /\ Len(jobs') = Len(jobs) + 1
      /\ \A i \in 1 .. Len(jobs) : jobs'[i] = jobs[i]
      /\ jobs'[Len(jobs) + 1] = NewJob(a, force)
  BY <1>1, <1>2, <1>3, AppendProperties
<1>5. NewJob(a, force).owner = NoOwner /\ NewJob(a, force).article = a
  BY DEF NewJob
<1> QED
  BY <1>2, <1>4, <1>5, JobsShape, JobConstants DEF Grows

\* One row is written.
LEMMA GrowsByWrite ==
    ASSUME TypeOK, NEW j \in DOMAIN jobs, NEW r \in JobRows,
           jobs' = [jobs EXCEPT ![j] = r],
           r.article = jobs[j].article,
           jobs[j].owner # NoOwner => r.owner = jobs[j].owner,
           jobs[j].state \notin Active =>
               r.state = jobs[j].state /\ r.reason = jobs[j].reason
    PROVE  /\ Grows
           /\ DOMAIN jobs' = DOMAIN jobs
           /\ jobs'[j] = r
           /\ \A i \in DOMAIN jobs : i # j => jobs'[i] = jobs[i]
<1>1. jobs \in Seq(JobRows) /\ j \in 1 .. Len(jobs)
  BY JobsShape DEF TypeOK
<1>2. /\ jobs' \in Seq(JobRows)
      /\ Len(jobs') = Len(jobs)
      /\ DOMAIN jobs' = DOMAIN jobs
      /\ jobs'[j] = r
      /\ \A i \in DOMAIN jobs : i # j => jobs'[i] = jobs[i]
  BY <1>1, ExceptSeq, JobsShape
<1>3. \A i \in DOMAIN jobs :
        /\ jobs'[i].article = jobs[i].article
        /\ jobs[i].owner # NoOwner => jobs'[i].owner = jobs[i].owner
        /\ jobs[i].state \notin Active =>
              jobs'[i].state = jobs[i].state /\ jobs'[i].reason = jobs[i].reason
  <2>1. TAKE i \in DOMAIN jobs
  <2> QED
    BY <1>2
<1>4. Len(jobs') \in {Len(jobs), Len(jobs) + 1} /\ Len(jobs') <= MaxJobs
      /\ Len(jobs') # Len(jobs) + 1
  <2>1. Len(jobs) \in Nat /\ Len(jobs) <= MaxJobs
    BY JobsShape
  <2>2. Len(jobs') = Len(jobs)
    BY <1>2
  <2>3. \A m, n : m = n /\ n \in Nat /\ n <= MaxJobs =>
          m \in {n, n + 1} /\ m <= MaxJobs /\ m # n + 1
    OBVIOUS
  <2> QED
    BY <2>1, <2>2, <2>3, Zenon
<1> QED
  BY <1>2, <1>3, <1>4 DEF Grows

\* A job is closed that was active.
LEMMA GrowsByClosing ==
    ASSUME TypeOK, NEW j \in DOMAIN jobs, NEW s \in JobStates, NEW r \in Reasons,
           jobs[j].state \in Active,
           jobs' = [jobs EXCEPT ![j] = Closed(jobs[j], s, r)]
    PROVE  Grows /\ DOMAIN jobs' = DOMAIN jobs
           /\ \A i \in DOMAIN jobs : jobs'[i].owner = jobs[i].owner
<1>1. jobs[j] \in JobRows
  BY JobsShape
<1>2. /\ Closed(jobs[j], s, r) \in JobRows
      /\ Closed(jobs[j], s, r).article = jobs[j].article
      /\ Closed(jobs[j], s, r).owner = jobs[j].owner
  BY <1>1, ClosedType
<1> HIDE DEF Closed
<1> QED
  BY <1>2, GrowsByWrite

\* Time passes for every row.
LEMMA LessType ==
    /\ \A n \in Nat : Less(n) \in Nat
    /\ \A m \in Nat : \A n \in 0 .. m : Less(n) \in 0 .. m
BY DEF Less

LEMMA GrowsByTick ==
    ASSUME TypeOK, Tick
    PROVE  /\ Grows
           /\ DOMAIN jobs' = DOMAIN jobs
           /\ \A i \in DOMAIN jobs : jobs'[i].owner = jobs[i].owner
<1> DEFINE Older(job) == [job EXCEPT !.left = Less(@), !.wait = Less(@), !.deadline = Less(@)]
<1>1. \A job \in JobRows :
        /\ Older(job) \in JobRows
        /\ Older(job).article = job.article
        /\ Older(job).owner = job.owner
        /\ Older(job).state = job.state
        /\ Older(job).reason = job.reason
  <2>1. TAKE job \in JobRows
  <2>2. /\ Less(job.left) \in 0 .. Lifetime
        /\ Less(job.wait) \in Nat
        /\ Less(job.deadline) \in 0 .. RunningLimit
    BY LessType, JobConstants DEF JobRows
  <2>3. Older(job) = [job EXCEPT !.left = Less(job.left), !.wait = Less(job.wait),
                                 !.deadline = Less(job.deadline)]
    BY DEF JobRows
  <2>4. [job EXCEPT !.left = Less(job.left), !.wait = Less(job.wait),
                    !.deadline = Less(job.deadline)] \in JobRows
    BY <2>2, Zenon DEF JobRows
  <2> QED
    BY <2>3, <2>4 DEF JobRows
<1>2. jobs' = [i \in DOMAIN jobs |-> Older(jobs[i])]
  BY DEF Tick
<1> HIDE DEF Older
<1>3. /\ jobs' \in [1 .. Len(jobs) -> JobRows]
      /\ DOMAIN jobs' = DOMAIN jobs
      /\ \A i \in DOMAIN jobs : jobs'[i] = Older(jobs[i]) /\ jobs[i] \in JobRows
  BY <1>1, <1>2, JobsShape
<1>4. jobs' \in Seq(JobRows) /\ Len(jobs') = Len(jobs)
  BY <1>3, JobsShape, SeqDef, LenProperties
<1>5. Len(jobs') <= MaxJobs /\ Len(jobs') # Len(jobs) + 1
  BY <1>4, JobsShape
<1> QED
  BY <1>1, <1>3, <1>4, <1>5 DEF Grows

\* Every step grows the table.
LEMMA TableStep ==
    ASSUME TypeOK, RunsOwnTheirJobs, [Next]_vars
    PROVE  Grows
<1>1. ASSUME jobs' = jobs PROVE Grows
  BY <1>1, GrowsNot
<1>2. ASSUME NEW a \in Articles, NEW force \in BOOLEAN, NEW seen, Enqueue(a, force, seen)
      PROVE  Grows
  BY <1>1, <1>2, GrowsByInsert DEF Enqueue
<1>3. ASSUME NEW a \in Articles, IngestWrite(a) \/ \E force \in BOOLEAN : Request(a, force)
      PROVE  Grows
  BY <1>2, <1>3 DEF IngestWrite, Request
<1>4. ASSUME NEW j \in DOMAIN jobs, Publish(j) PROVE Grows
  <2>1. CASE jobs[j].left = 0 /\ jobs' = [jobs EXCEPT ![j] = Closed(@, "expired", "queue_expired")]
    BY <1>4, <2>1, GrowsByClosing DEF Publish, Active, JobStates, Reasons
  <2>2. ASSUME NEW n \in Spacings, jobs' = [jobs EXCEPT ![j].wait = n] PROVE Grows
    <3>1. jobs[j] \in JobRows /\ n \in Nat
      BY <2>2, JobsShape, JobConstants
    <3>2. [jobs[j] EXCEPT !.wait = n] \in JobRows
      BY <3>1, Zenon DEF JobRows
    <3>3. jobs' = [jobs EXCEPT ![j] = [jobs[j] EXCEPT !.wait = n]]
      BY <2>2
    <3> QED
      BY <3>1, <3>2, <3>3, GrowsByWrite DEF JobRows
  <2> QED
    BY <1>4, <2>1, <2>2 DEF Publish
<1>5. ASSUME NEW j \in DOMAIN jobs, Recover(j) PROVE Grows
  BY <1>5, GrowsByClosing DEF Recover, Overdue, Active, JobStates, Reasons
<1>6. ASSUME NEW w \in Workers, NEW j \in DOMAIN jobs, Claim(w, j) PROVE Grows
  <2>1. CASE jobs' = [jobs EXCEPT ![j] = Closed(@, "expired", "queue_expired")] /\ Claimable(j)
    BY <2>1, GrowsByClosing DEF Claimable, Active, JobStates, Reasons
  <2>2. CASE /\ Claimable(j)
             /\ jobs' = [jobs EXCEPT ![j] = [@ EXCEPT !.state = "running", !.owner = w,
                            !.left = 0, !.wait = 0, !.deadline = RunningLimit]]
    <3> DEFINE r == [jobs[j] EXCEPT !.state = "running", !.owner = w,
                       !.left = 0, !.wait = 0, !.deadline = RunningLimit]
    <3>1. jobs[j] \in JobRows
      BY JobsShape
    <3>2. 0 \in 0 .. Lifetime /\ 0 \in Nat /\ RunningLimit \in 0 .. RunningLimit
      BY JobConstants
    <3>3. r \in JobRows
      BY <3>1, <3>2, Zenon DEF JobRows, JobStates, Active
    <3>4. r.article = jobs[j].article /\ jobs[j].owner = NoOwner /\ jobs[j].state \in Active
      BY <2>2, <3>1 DEF Claimable, JobRows, Active
    <3>5. jobs' = [jobs EXCEPT ![j] = r]
      BY <2>2
    <3> HIDE DEF r
    <3> QED
      BY <3>3, <3>4, <3>5, GrowsByWrite
  <2> QED
    BY <1>1, <1>6, <2>1, <2>2 DEF Claim
<1>7. ASSUME NEW w \in Workers, Finish(w) PROVE Grows
  <2> DEFINE j == run[w].job
             s == IF run[w].verdict = "done" THEN "done" ELSE "failed"
  <2>1. CASE jobs' = [jobs EXCEPT ![j] = Closed(@, s, run[w].verdict)] /\ jobs[j].state = "running"
    <3>1. j \in DOMAIN jobs
      BY <1>7 DEF Finish, RunsOwnTheirJobs
    <3>2. s \in JobStates /\ run[w].verdict \in Reasons /\ jobs[j].state \in Active
      BY <2>1 DEF TypeOK, Runs, JobStates, Active, Reasons
    <3> QED
      BY <2>1, <3>1, <3>2, GrowsByClosing
  <2> QED
    BY <1>1, <1>7, <2>1 DEF Finish
<1>8. ASSUME NEW w \in Workers, RequestFresh(w) PROVE Grows
  <2>1. run[w].article \in Articles /\ run[w].force \in BOOLEAN
    BY DEF TypeOK, Runs
  <2> QED
    BY <1>2, <1>8, <2>1 DEF RequestFresh
<1>9. ASSUME NEW w \in Workers, Process(w) PROVE Grows
  <2>1. Read(w) \/ Pay(w) \/ Apply(w) \/ Fails(w) \/ Crash(w) => jobs' = jobs
    BY DEF Read, Pay, Apply, Fails, Crash
  <2> QED
    BY <1>1, <1>7, <1>8, <1>9, <2>1 DEF Process
<1>10. queue \subseteq DOMAIN jobs
  BY DEF TypeOK
<1>11. \A j \in DOMAIN jobs : LoseMessage(j) => jobs' = jobs
  BY DEF LoseMessage
<1>12. \A a \in Articles : IngestAbort(a) \/ (\E level \in 1 .. Levels : IngestRead(a, level))
          => jobs' = jobs
  BY DEF IngestAbort, IngestRead
<1>13. \A w \in Workers, a \in Articles, force \in BOOLEAN : RunScript(w, a, force) => jobs' = jobs
  BY DEF RunScript
<1> QED
  BY <1>1, <1>3, <1>4, <1>5, <1>6, <1>9, <1>10, <1>11, <1>12, <1>13, GrowsByTick DEF Next, vars

----------------------------------------------------------------------------
\* Type correctness.

LEMMA NoRunType ==
    ASSUME NEW a \in Articles
    PROVE  NoRun(a) \in Runs
<1>1. 0 \in 0 .. MaxJobs /\ 0 \in 0 .. Levels
  BY JobConstants
<1> QED
  BY <1>1, Zenon DEF NoRun, NoJob, Runs, Verdicts

\* What a worker holds when process_article is over.
LEMMA EndsType ==
    ASSUME TypeOK, NEW w \in Workers, NEW verdict \in Verdicts, NEW held \in [Workers -> Runs],
           Ends(w, verdict, held)
    PROVE  pc' \in [Workers -> Steps] /\ run' \in [Workers -> Runs]
<1> DEFINE rest == NoRun(run[w].article)
           over == [rest EXCEPT !.job = run[w].job, !.force = run[w].force, !.verdict = verdict]
<1>1. run[w] \in Runs
  BY DEF TypeOK
<1>2. run[w].article \in Articles /\ run[w].job \in 0 .. MaxJobs /\ run[w].force \in BOOLEAN
  BY <1>1 DEF Runs
<1>3. rest \in Runs
  BY <1>2, NoRunType
<1> HIDE DEF rest
<1>4. over \in Runs
  BY <1>2, <1>3, Zenon DEF Runs
<1>5. run' = [held EXCEPT ![w] = rest] \/ run' = [held EXCEPT ![w] = over]
  BY DEF Ends, rest
<1>6. pc' \in [Workers -> Steps]
  BY DEF Ends, GoTo, TypeOK, Steps
<1> QED
  BY <1>3, <1>4, <1>5, <1>6

LEMMA LeaveType ==
    ASSUME TypeOK, NEW w \in Workers, Leave(w)
    PROVE  pc' \in [Workers -> Steps] /\ run' \in [Workers -> Runs]
<1>1. run[w].article \in Articles
  BY DEF TypeOK, Runs
<1>2. NoRun(run[w].article) \in Runs
  BY <1>1, NoRunType
<1> QED
  BY <1>2 DEF Leave, GoTo, TypeOK, Steps

LEMMA MovedType ==
    ASSUME TypeOK, NEW a \in Articles, NEW visible \in BOOLEAN
    PROVE  Moved(a, visible) \in [Workers -> Runs]
<1>1. \A v \in Workers : [run[v] EXCEPT !.moved = run[v].moved \/ visible] \in Runs
  <2>1. TAKE v \in Workers
  <2>2. run[v] \in Runs /\ (run[v].moved \/ visible) \in BOOLEAN
    BY DEF TypeOK, Runs
  <2> QED
    BY <2>2, Zenon DEF Runs
<1> QED
  BY <1>1 DEF Moved, TypeOK

\* The messages are of jobs in the table, which does not shrink.
LEMMA QueueGrows ==
    ASSUME TypeOK, Grows
    PROVE  DOMAIN jobs \subseteq DOMAIN jobs'
<1>1. DOMAIN jobs' = 1 .. Len(jobs') /\ Len(jobs') >= Len(jobs)
  BY JobsShape, LenProperties DEF Grows
<1> QED
  BY <1>1, JobsShape

LEMMA TypeStep ==
    ASSUME TypeOK, RunsOwnTheirJobs, [Next]_vars
    PROVE  TypeOK'
<1>1. Grows
  BY TableStep
<1>2. jobs' \in Seq(JobRows) /\ Len(jobs') <= MaxJobs /\ DOMAIN jobs \subseteq DOMAIN jobs'
  BY <1>1, QueueGrows DEF Grows
<1>3. ASSUME article' = article, ingest' = ingest, queue' \subseteq DOMAIN jobs, paid' = paid,
             pc' \in [Workers -> Steps], run' \in [Workers -> Runs]
      PROVE  TypeOK'
  BY <1>2, <1>3 DEF TypeOK
<1>4. ASSUME NEW a \in Articles, NEW level \in 1 .. Levels, IngestRead(a, level) PROVE TypeOK'
  <2>1. level \in 0 .. Levels /\ article[a].processed \in BOOLEAN /\ HasActive(a) \in BOOLEAN
    BY JobConstants DEF TypeOK, ArticleRows, HasActive
  <2>2. ingest' \in [Articles -> IngestRows]
    BY <1>4, <2>1 DEF IngestRead, IngestRows, TypeOK
  <2> QED
    BY <1>2, <1>4, <2>2 DEF IngestRead, TypeOK
<1>5. NoIngest \in IngestRows
  BY JobConstants DEF NoIngest, IngestRows
<1>6. ASSUME NEW a \in Articles, IngestWrite(a) PROVE TypeOK'
  <2>1. ingest[a] \in IngestRows /\ article[a] \in ArticleRows
    BY DEF TypeOK
  <2>2. 0 \in 0 .. Levels
    BY JobConstants
  <2>3. article' \in [Articles -> ArticleRows]
    BY <1>6, <2>1, <2>2 DEF IngestWrite, IngestRows, ArticleRows, TypeOK
  <2>4. ingest' \in [Articles -> IngestRows]
    BY <1>5, <1>6 DEF IngestWrite, TypeOK
  <2> QED
    BY <1>2, <1>6, <2>3, <2>4 DEF IngestWrite, TypeOK
<1>7. ASSUME NEW a \in Articles, IngestAbort(a) PROVE TypeOK'
  BY <1>2, <1>5, <1>7 DEF IngestAbort, TypeOK
<1>8. ASSUME NEW a \in Articles, NEW force \in BOOLEAN, Request(a, force) PROVE TypeOK'
  BY <1>3, <1>8 DEF Request, TypeOK
<1>9. ASSUME NEW j \in DOMAIN jobs, Publish(j) \/ Recover(j) \/ LoseMessage(j) PROVE TypeOK'
  BY <1>3, <1>9 DEF Publish, Recover, LoseMessage, TypeOK
<1>10. ASSUME NEW w \in Workers, NEW j \in queue, Claim(w, j) PROVE TypeOK'
  <2>1. j \in DOMAIN jobs /\ j \in 0 .. MaxJobs /\ jobs[j] \in JobRows
    BY JobsShape, JobConstants
  <2>2. jobs[j].article \in Articles /\ jobs[j].force \in BOOLEAN
    BY <2>1 DEF JobRows
  <2>3. [NoRun(jobs[j].article) EXCEPT !.job = j, !.force = jobs[j].force] \in Runs
    <3>1. \A rest \in Runs : [rest EXCEPT !.job = j, !.force = jobs[j].force] \in Runs
      BY <2>1, <2>2, Zenon DEF Runs
    <3> QED
      BY <2>2, <3>1, NoRunType
  <2>4. run' \in [Workers -> Runs] /\ pc' \in [Workers -> Steps]
    <3> DEFINE fresh == [NoRun(jobs[j].article) EXCEPT !.job = j, !.force = jobs[j].force]
    <3>1. UNCHANGED <<run, pc>> \/ (run' = [run EXCEPT ![w] = fresh] /\ GoTo(w, "reading"))
      BY <1>10 DEF Claim
    <3>2. fresh \in Runs /\ "reading" \in Steps
      BY <2>3 DEF Steps
    <3> HIDE DEF fresh
    <3> QED
      BY <3>1, <3>2 DEF TypeOK, GoTo
  <2> QED
    BY <1>3, <1>10, <2>4 DEF Claim, TypeOK
<1>11. ASSUME NEW w \in Workers, NEW a \in Articles, NEW force \in BOOLEAN, RunScript(w, a, force)
       PROVE  TypeOK'
  <2>1. [NoRun(a) EXCEPT !.force = force] \in Runs
    <3>1. \A rest \in Runs : [rest EXCEPT !.force = force] \in Runs
      BY Zenon DEF Runs
    <3> QED
      BY <3>1, NoRunType
  <2>2. run' \in [Workers -> Runs] /\ pc' \in [Workers -> Steps]
    BY <1>11, <2>1 DEF RunScript, GoTo, TypeOK, Steps
  <2> QED
    BY <1>3, <1>11, <2>2 DEF RunScript, TypeOK
<1>12. ASSUME NEW w \in Workers, Process(w) PROVE TypeOK'
  <2> DEFINE a == run[w].article
  <2>1. run[w] \in Runs /\ run \in [Workers -> Runs]
    BY DEF TypeOK
  <2>2. a \in Articles /\ article[a] \in ArticleRows /\ run[w].level \in 0 .. Levels
    BY <2>1 DEF Runs, TypeOK
  <2>3. ASSUME NEW verdict \in Verdicts, Verdict(w, verdict)
        PROVE  pc' \in [Workers -> Steps] /\ run' \in [Workers -> Runs]
    BY <2>1, <2>3, EndsType DEF Verdict
  <2>4. CASE Read(w)
    <3>1. CASE Verdict(w, "done")
      BY <1>3, <2>3, <2>4, <3>1 DEF Read, TypeOK, Verdicts
    <3>2. CASE /\ GoTo(w, "paying")
               /\ run' = [run EXCEPT ![w].level = article[run[w].article].level]
      <4>1. article[a].level \in 0 .. Levels
        BY <2>2 DEF ArticleRows
      <4>2. [run[w] EXCEPT !.level = article[a].level] \in Runs
        BY <2>1, <4>1, Zenon DEF Runs
      <4>3. run' = [run EXCEPT ![w] = [run[w] EXCEPT !.level = article[a].level]]
        BY <3>2
      <4>4. run' \in [Workers -> Runs] /\ pc' \in [Workers -> Steps]
        BY <2>1, <3>2, <4>2, <4>3 DEF GoTo, TypeOK, Steps
      <4> QED
        BY <1>3, <2>4, <4>4 DEF Read, TypeOK
    <3> QED
      BY <2>4, <3>1, <3>2 DEF Read
  <2>5. CASE Pay(w)
    <3>1. paid' \in [1 .. MaxJobs -> Nat]
      <4>1. CASE run[w].job = NoJob
        BY <2>5, <4>1 DEF Pay, TypeOK
      <4>2. CASE run[w].job # NoJob
        <5>1. run[w].job \in 1 .. MaxJobs
          BY <2>1, <4>2, JobConstants DEF Runs, NoJob
        <5>2. paid' = [paid EXCEPT ![run[w].job] = paid[run[w].job] + 1]
          BY <2>5, <4>2 DEF Pay
        <5> QED
          BY <5>1, <5>2 DEF TypeOK
      <4> QED
        BY <4>1, <4>2
    <3>2. pc' \in [Workers -> Steps]
      BY <2>5 DEF Pay, GoTo, TypeOK, Steps
    <3> QED
      BY <1>2, <2>5, <3>1, <3>2 DEF Pay, TypeOK
  <2>6. CASE Apply(w)
    <3>1. ASSUME NEW verdict \in Verdicts, Verdict(w, verdict), article' = article PROVE TypeOK'
      BY <1>3, <2>3, <2>6, <3>1 DEF Apply, TypeOK
    <3>2. ASSUME NEW visible \in BOOLEAN, Ends(w, "done", Moved(a, visible)),
                 article' = [article EXCEPT ![a] = [@ EXCEPT !.processed = TRUE,
                                                            !.result = run[w].level]]
          PROVE  TypeOK'
      <4>1. pc' \in [Workers -> Steps] /\ run' \in [Workers -> Runs]
        BY <2>2, <3>2, MovedType, EndsType DEF Verdicts
      <4>2. article' \in [Articles -> ArticleRows]
        BY <2>2, <3>2 DEF TypeOK, ArticleRows
      <4> QED
        BY <1>2, <2>6, <4>1, <4>2 DEF Apply, TypeOK
    <3> QED
      BY <2>6, <3>1, <3>2 DEF Apply, Verdicts
  <2>7. CASE Fails(w)
    BY <1>3, <2>3, <2>7 DEF Fails, TypeOK, Verdicts
  <2>8. CASE Finish(w)
    <3>1. pc' \in [Workers -> Steps] /\ run' \in [Workers -> Runs]
      BY <2>1, <2>8, LeaveType DEF Finish, GoTo, TypeOK, Steps
    <3> QED
      BY <1>3, <2>8, <3>1 DEF Finish, TypeOK
  <2>9. CASE RequestFresh(w) \/ Crash(w)
    BY <1>3, <2>9, LeaveType DEF RequestFresh, Crash, TypeOK
  <2> QED
    BY <1>12, <2>4, <2>5, <2>6, <2>7, <2>8, <2>9 DEF Process
<1>13. CASE Tick
  BY <1>3, <1>13 DEF Tick, TypeOK
<1>14. CASE UNCHANGED vars
  BY <1>3, <1>14 DEF vars, TypeOK
<1> QED
  BY <1>4, <1>6, <1>7, <1>8, <1>9, <1>10, <1>11, <1>12, <1>13, <1>14 DEF Next

----------------------------------------------------------------------------
\* The inductive invariant.

\* A row is added only for an article without an active job.
LEMMA OneActiveStep ==
    ASSUME TypeOK, OneActiveJob, Grows
    PROVE  OneActiveJob'
<1>1. DOMAIN jobs' = 1 .. Len(jobs') /\ Len(jobs') \in Nat
  BY LenProperties DEF Grows
<1>2. ASSUME NEW i \in DOMAIN jobs', jobs'[i].state \in Active, i \in DOMAIN jobs
      PROVE  jobs[i].state \in Active /\ jobs'[i].article = jobs[i].article
  BY <1>2 DEF Grows
<1>3. \A i \in DOMAIN jobs' : i \in DOMAIN jobs \/ (i = Len(jobs) + 1 /\ Len(jobs') = Len(jobs) + 1)
  <2>1. Len(jobs) \in Nat /\ DOMAIN jobs = 1 .. Len(jobs)
    BY JobsShape
  <2>2. Len(jobs') = Len(jobs) \/ Len(jobs') = Len(jobs) + 1
    BY DEF Grows
  <2>3. \A m, n \in Nat : m = n \/ m = n + 1 =>
          \A i \in 1 .. m : i \in 1 .. n \/ (i = n + 1 /\ m = n + 1)
    OBVIOUS
  <2> QED
    BY <1>1, <2>1, <2>2, <2>3, Zenon
<1>4. Len(jobs') = Len(jobs) + 1 =>
        \A i \in DOMAIN jobs : jobs[i].state \in Active =>
            jobs[i].article # jobs'[Len(jobs) + 1].article
  BY DEF Grows, HasActive
<1> QED
  BY <1>2, <1>3, <1>4 DEF OneActiveJob

\* Nothing is paid in a step that leaves paid alone, and a claimed row stays so.
LEMMA UnpaidStep ==
    ASSUME TypeOK, UnclaimedUnpaid, PaidOnce, Grows, paid' = paid
    PROVE  UnclaimedUnpaid' /\ PaidOnce'
<1>1. DOMAIN jobs \subseteq DOMAIN jobs'
  BY QueueGrows
<1>2. DOMAIN jobs' \subseteq 1 .. MaxJobs
  <2>1. DOMAIN jobs' = 1 .. Len(jobs') /\ Len(jobs') \in Nat /\ Len(jobs') <= MaxJobs
    BY LenProperties DEF Grows
  <2> QED
    BY <2>1, JobConstants
<1>3. UnclaimedUnpaid'
  <2>1. SUFFICES ASSUME NEW j \in 1 .. MaxJobs,
                        j \in DOMAIN jobs' => jobs'[j].owner = NoOwner
                 PROVE  paid[j] = 0
    BY DEF UnclaimedUnpaid
  <2>2. j \in DOMAIN jobs => jobs[j].owner = NoOwner
    BY <1>1, <2>1 DEF Grows
  <2> QED
    BY <2>2 DEF UnclaimedUnpaid
<1>4. PaidOnce'
  <2>1. SUFFICES ASSUME NEW j \in DOMAIN jobs' PROVE paid[j] <= 1
    BY DEF PaidOnce
  <2>2. CASE j \in DOMAIN jobs
    BY <2>2 DEF PaidOnce
  <2>3. CASE j \notin DOMAIN jobs
    BY <1>2, <2>1, <2>3 DEF UnclaimedUnpaid
  <2> QED
    BY <2>2, <2>3
<1> QED
  BY <1>3, <1>4

\* A worker keeps its job and goes on, or lets it go, or has none.
GoesOn(w) ==
    \/ pc'[w] = "idle"
    \/ run'[w].job = NoJob /\ pc'[w] \notin {"closing", "requesting"}
    \/ /\ pc[w] # "idle"
       /\ run'[w].job = run[w].job
       /\ pc'[w] \in {"reading", "paying"} => pc[w] \in {"reading", "paying"}
       /\ pc'[w] \in {"closing", "requesting"} => run[w].job # NoJob

LEMMA OwnStep ==
    ASSUME TypeOK, RunsOwnTheirJobs, Grows, paid' = paid, \A w \in Workers : GoesOn(w)
    PROVE  RunsOwnTheirJobs'
<1>1. SUFFICES ASSUME NEW w \in Workers
               PROVE  /\ pc'[w] \in {"closing", "requesting"} => run'[w].job # NoJob
                      /\ pc'[w] # "idle" /\ run'[w].job # NoJob =>
                            /\ run'[w].job \in DOMAIN jobs'
                            /\ jobs'[run'[w].job].owner = w
                            /\ pc'[w] \in {"reading", "paying"} => paid'[run'[w].job] = 0
  BY DEF RunsOwnTheirJobs
<1>2. CASE pc'[w] = "idle" \/ run'[w].job = NoJob
  BY <1>1, <1>2 DEF GoesOn
<1>3. CASE pc'[w] # "idle" /\ run'[w].job # NoJob
  <2>1. /\ pc[w] # "idle" /\ run'[w].job = run[w].job
        /\ pc'[w] \in {"reading", "paying"} => pc[w] \in {"reading", "paying"}
    BY <1>3 DEF GoesOn
  <2>2. /\ run[w].job \in DOMAIN jobs
        /\ jobs[run[w].job].owner = w
        /\ pc[w] \in {"reading", "paying"} => paid[run[w].job] = 0
    BY <1>3, <2>1 DEF RunsOwnTheirJobs
  <2>3. w # NoOwner
    BY JobConstants
  <2>4. run[w].job \in DOMAIN jobs' /\ jobs'[run[w].job].owner = w
    BY <2>2, <2>3, QueueGrows DEF Grows
  <2> QED
    BY <1>3, <2>1, <2>2, <2>4
<1> QED
  BY <1>2, <1>3

\* The worker moves one step, and the others stay.
LEMMA EndsGoesOn ==
    ASSUME TypeOK, NEW w \in Workers, NEW verdict \in Verdicts, NEW held \in [Workers -> Runs],
           \A v \in Workers : held[v].job = run[v].job, pc[w] # "idle",
           RunsOwnTheirJobs, Ends(w, verdict, held)
    PROVE  \A v \in Workers : GoesOn(v)
<1> DEFINE rest == NoRun(run[w].article)
<1>1. CASE run[w].job = NoJob /\ GoTo(w, "idle") /\ run' = [held EXCEPT ![w] = rest]
  <2>1. pc'[w] = "idle"
    BY <1>1 DEF GoTo, TypeOK
  <2>2. \A v \in Workers : v # w => pc'[v] = pc[v] /\ run'[v].job = run[v].job
    BY <1>1 DEF GoTo, TypeOK
  <2> QED
    BY <2>1, <2>2 DEF GoesOn, RunsOwnTheirJobs
<1>2. CASE /\ run[w].job # NoJob
           /\ GoTo(w, "closing")
           /\ run' = [held EXCEPT ![w] = [rest EXCEPT !.job = run[w].job, !.force = run[w].force,
                                                      !.verdict = verdict]]
  <2>1. pc'[w] = "closing" /\ run'[w].job = run[w].job
    BY <1>2 DEF GoTo, TypeOK, NoRun
  <2>2. \A v \in Workers : v # w => pc'[v] = pc[v] /\ run'[v].job = run[v].job
    BY <1>2 DEF GoTo, TypeOK
  <2> QED
    BY <1>2, <2>1, <2>2 DEF GoesOn, RunsOwnTheirJobs
<1> QED
  BY <1>1, <1>2 DEF Ends

LEMMA LeaveGoesOn ==
    ASSUME TypeOK, RunsOwnTheirJobs, NEW w \in Workers, Leave(w)
    PROVE  \A v \in Workers : GoesOn(v)
<1>1. pc'[w] = "idle" /\ \A v \in Workers : v # w => pc'[v] = pc[v] /\ run'[v] = run[v]
  BY DEF Leave, GoTo, TypeOK
<1> QED
  BY <1>1 DEF GoesOn, RunsOwnTheirJobs

LEMMA StayGoesOn ==
    ASSUME RunsOwnTheirJobs, pc' = pc, run' = run
    PROVE  \A v \in Workers : GoesOn(v)
BY DEF GoesOn, RunsOwnTheirJobs

\* The claim of a row that nobody had claimed, and that nobody has paid for.
LEMMA ClaimOwns ==
    ASSUME TypeOK, RunsOwnTheirJobs, UnclaimedUnpaid, Grows,
           NEW w \in Workers, NEW j \in queue, Claim(w, j)
    PROVE  RunsOwnTheirJobs'
<1>1. j \in DOMAIN jobs /\ j \in 1 .. MaxJobs /\ jobs[j] \in JobRows
  BY JobsShape, JobConstants
<1>2. CASE pc' = pc /\ run' = run
  BY <1>2, OwnStep, StayGoesOn DEF Claim
<1>3. CASE /\ Claimable(j)
           /\ jobs' = [jobs EXCEPT ![j] = [@ EXCEPT !.state = "running", !.owner = w,
                          !.left = 0, !.wait = 0, !.deadline = RunningLimit]]
           /\ run' = [run EXCEPT ![w] = [NoRun(jobs[j].article) EXCEPT
                                           !.job = j, !.force = jobs[j].force]]
           /\ GoTo(w, "reading")
  <2>1. pc'[w] = "reading" /\ run'[w].job = j
    BY <1>3 DEF GoTo, TypeOK, NoRun
  <2>2. \A v \in Workers : v # w => pc'[v] = pc[v] /\ run'[v] = run[v]
    BY <1>3 DEF GoTo, TypeOK
  <2>3. DOMAIN jobs' = DOMAIN jobs /\ jobs'[j].owner = w
    BY <1>1, <1>3 DEF JobRows
  <2>4. \A i \in DOMAIN jobs : i # j => jobs'[i] = jobs[i]
    BY <1>3
  <2>5. paid'[j] = 0
    BY <1>1, <1>3 DEF UnclaimedUnpaid, Claimable, Claim
  <2>6. \A v \in Workers : pc[v] # "idle" /\ run[v].job # NoJob => run[v].job # j
    <3>1. jobs[j].owner = NoOwner
      BY <1>3 DEF Claimable
    <3> QED
      BY <3>1, JobConstants DEF RunsOwnTheirJobs
  <2>7. paid' = paid
    BY DEF Claim
  <2> QED
    BY <1>1, <2>1, <2>2, <2>3, <2>4, <2>5, <2>6, <2>7 DEF RunsOwnTheirJobs
<1> QED
  BY <1>2, <1>3 DEF Claim

\* The model calls of a job, by the one worker that holds it.
LEMMA PayOnce ==
    ASSUME TypeOK, RunsOwnTheirJobs, UnclaimedUnpaid, PaidOnce, Grows, NEW w \in Workers, Pay(w)
    PROVE  RunsOwnTheirJobs' /\ UnclaimedUnpaid' /\ PaidOnce'
<1> DEFINE j == run[w].job
<1>1. jobs' = jobs /\ run' = run /\ pc[w] = "paying" /\ pc'[w] = "applying"
      /\ \A v \in Workers : v # w => pc'[v] = pc[v]
  BY DEF Pay, GoTo, TypeOK
<1>2. CASE j = NoJob
  <2>1. paid' = paid
    BY <1>2 DEF Pay
  <2>2. \A v \in Workers : GoesOn(v)
    BY <1>1, <1>2 DEF GoesOn, RunsOwnTheirJobs
  <2> QED
    BY <2>1, <2>2, OwnStep, UnpaidStep
<1>3. CASE j # NoJob
  <2>1. j \in DOMAIN jobs /\ jobs[j].owner = w /\ paid[j] = 0 /\ w # NoOwner
    BY <1>1, <1>3, JobConstants DEF RunsOwnTheirJobs
  <2>2. paid' = [paid EXCEPT ![j] = paid[j] + 1]
    BY <1>3 DEF Pay
  <2>3. \A i \in DOMAIN jobs : i \in 1 .. MaxJobs
    BY JobsShape, JobConstants
  <2>4. paid'[j] = 1 /\ \A i \in 1 .. MaxJobs : i # j => paid'[i] = paid[i]
    BY <2>1, <2>2, <2>3 DEF TypeOK
  <2>5. UnclaimedUnpaid'
    BY <1>1, <2>1, <2>4 DEF UnclaimedUnpaid
  <2>6. PaidOnce'
    BY <1>1, <2>3, <2>4 DEF PaidOnce
  <2>7. RunsOwnTheirJobs'
    <3>1. SUFFICES ASSUME NEW v \in Workers
                   PROVE  /\ pc'[v] \in {"closing", "requesting"} => run[v].job # NoJob
                          /\ pc'[v] # "idle" /\ run[v].job # NoJob =>
                                /\ run[v].job \in DOMAIN jobs
                                /\ jobs[run[v].job].owner = v
                                /\ pc'[v] \in {"reading", "paying"} => paid'[run[v].job] = 0
      BY <1>1 DEF RunsOwnTheirJobs
    <3>2. CASE v = w
      BY <1>1, <1>3, <2>1, <3>2
    <3>3. CASE v # w
      <4>1. pc'[v] = pc[v]
        BY <1>1, <3>3
      <4>2. pc[v] # "idle" /\ run[v].job # NoJob =>
              run[v].job \in 1 .. MaxJobs /\ run[v].job # j
        BY <2>1, <2>3, <3>3 DEF RunsOwnTheirJobs
      <4> QED
        BY <2>4, <4>1, <4>2 DEF RunsOwnTheirJobs
    <3> QED
      BY <3>2, <3>3
  <2> QED
    BY <2>5, <2>6, <2>7
<1> QED
  BY <1>2, <1>3

LEMMA OwnersStep ==
    ASSUME TypeOK, RunsOwnTheirJobs, UnclaimedUnpaid, PaidOnce, Grows, [Next]_vars
    PROVE  RunsOwnTheirJobs' /\ UnclaimedUnpaid' /\ PaidOnce'
<1>1. ASSUME paid' = paid, \A v \in Workers : GoesOn(v)
      PROVE  RunsOwnTheirJobs' /\ UnclaimedUnpaid' /\ PaidOnce'
  BY <1>1, OwnStep, UnpaidStep
<1>2. ASSUME paid' = paid, pc' = pc, run' = run
      PROVE  RunsOwnTheirJobs' /\ UnclaimedUnpaid' /\ PaidOnce'
  BY <1>1, <1>2, StayGoesOn
<1>3. ASSUME NEW w \in Workers, NEW j \in queue, Claim(w, j)
      PROVE  RunsOwnTheirJobs' /\ UnclaimedUnpaid' /\ PaidOnce'
  BY <1>3, ClaimOwns, UnpaidStep DEF Claim
<1>4. ASSUME NEW w \in Workers, NEW a \in Articles, NEW force \in BOOLEAN, RunScript(w, a, force)
      PROVE  RunsOwnTheirJobs' /\ UnclaimedUnpaid' /\ PaidOnce'
  <2>1. pc'[w] = "reading" /\ run'[w].job = NoJob
        /\ \A v \in Workers : v # w => pc'[v] = pc[v] /\ run'[v] = run[v]
    BY <1>4 DEF RunScript, GoTo, TypeOK, NoRun
  <2>2. \A v \in Workers : GoesOn(v)
    BY <2>1 DEF GoesOn, RunsOwnTheirJobs
  <2> QED
    BY <1>1, <1>4, <2>2 DEF RunScript
<1>5. ASSUME NEW w \in Workers, Process(w)
      PROVE  RunsOwnTheirJobs' /\ UnclaimedUnpaid' /\ PaidOnce'
  <2>1. ASSUME NEW verdict \in Verdicts, Verdict(w, verdict), pc[w] # "idle"
        PROVE  \A v \in Workers : GoesOn(v)
    BY <2>1, EndsGoesOn DEF Verdict, TypeOK
  <2>2. CASE Read(w)
    <3>1. CASE Verdict(w, "done")
      BY <1>1, <2>1, <2>2, <3>1 DEF Read, Verdicts
    <3>2. CASE GoTo(w, "paying") /\ run' = [run EXCEPT ![w].level = article[run[w].article].level]
      <4>1. pc[w] = "reading" /\ pc'[w] = "paying" /\ run'[w].job = run[w].job
            /\ \A v \in Workers : v # w => pc'[v] = pc[v] /\ run'[v] = run[v]
        BY <2>2, <3>2 DEF Read, GoTo, TypeOK, Runs
      <4>2. \A v \in Workers : GoesOn(v)
        BY <4>1 DEF GoesOn, RunsOwnTheirJobs
      <4> QED
        BY <1>1, <2>2, <4>2 DEF Read
    <3> QED
      BY <2>2, <3>1, <3>2 DEF Read
  <2>3. CASE Pay(w)
    BY <2>3, PayOnce
  <2>4. CASE Apply(w)
    <3>1. ASSUME NEW visible \in BOOLEAN, Ends(w, "done", Moved(run[w].article, visible))
          PROVE  \A v \in Workers : GoesOn(v)
      <4>1. Moved(run[w].article, visible) \in [Workers -> Runs]
        BY MovedType DEF TypeOK, Runs
      <4>2. \A v \in Workers : Moved(run[w].article, visible)[v].job = run[v].job
        BY DEF Moved, TypeOK, Runs
      <4> QED
        BY <2>4, <3>1, <4>1, <4>2, EndsGoesOn DEF Apply, Verdicts
    <3>2. \A v \in Workers : GoesOn(v)
      BY <2>1, <2>4, <3>1 DEF Apply, Verdicts
    <3> QED
      BY <1>1, <2>4, <3>2 DEF Apply
  <2>5. CASE Fails(w)
    BY <1>1, <2>1, <2>5 DEF Fails, Verdicts
  <2>6. CASE Finish(w)
    <3>1. CASE GoTo(w, "requesting") /\ UNCHANGED run
      <4>1. pc[w] = "closing" /\ pc'[w] = "requesting"
            /\ \A v \in Workers : v # w => pc'[v] = pc[v]
        BY <2>6, <3>1 DEF Finish, GoTo, TypeOK
      <4>2. \A v \in Workers : GoesOn(v)
        BY <3>1, <4>1 DEF GoesOn, RunsOwnTheirJobs
      <4> QED
        BY <1>1, <2>6, <4>2 DEF Finish
    <3> QED
      BY <1>1, <2>6, <3>1, LeaveGoesOn DEF Finish
  <2>7. CASE RequestFresh(w) \/ Crash(w)
    BY <1>1, <2>7, LeaveGoesOn DEF RequestFresh, Crash
  <2> QED
    BY <1>5, <2>2, <2>3, <2>4, <2>5, <2>6, <2>7 DEF Process
<1>6. ASSUME NEW a \in Articles,
             \/ \E level \in 1 .. Levels : IngestRead(a, level)
             \/ IngestWrite(a)
             \/ IngestAbort(a)
             \/ \E force \in BOOLEAN : Request(a, force)
      PROVE  paid' = paid /\ pc' = pc /\ run' = run
  BY <1>6 DEF IngestRead, IngestWrite, IngestAbort, Request
<1>7. ASSUME NEW j \in DOMAIN jobs, Publish(j) \/ Recover(j) \/ LoseMessage(j)
      PROVE  paid' = paid /\ pc' = pc /\ run' = run
  BY <1>7 DEF Publish, Recover, LoseMessage
<1>8. Tick \/ UNCHANGED vars => paid' = paid /\ pc' = pc /\ run' = run
  BY DEF Tick, vars
<1> QED
  BY <1>2, <1>3, <1>4, <1>5, <1>6, <1>7, <1>8 DEF Next

LEMMA InitIInv == Init => IInv
<1>1. SUFFICES ASSUME Init PROVE IInv
  OBVIOUS
<1>2. PICK a \in Articles : run = [w \in Workers |-> NoRun(a)]
  BY <1>1 DEF Init
<1>3. DOMAIN jobs = {} /\ jobs \in Seq(JobRows) /\ Len(jobs) = 0 /\ queue = {}
  BY <1>1, EmptySeq DEF Init
<1>4. 0 \in 0 .. Levels
  BY JobConstants
<1>5. article \in [Articles -> ArticleRows] /\ ingest \in [Articles -> IngestRows]
  <2>1. \A level \in 0 .. Levels : Kept(level) \in ArticleRows
    BY DEF Kept, ArticleRows
  <2> QED
    BY <1>1, <1>4, <2>1 DEF Init, IngestRows, NoIngest
<1>6. pc \in [Workers -> Steps] /\ run \in [Workers -> Runs]
  BY <1>1, <1>2, NoRunType DEF Init, Steps
<1>7. TypeOK
  BY <1>1, <1>3, <1>5, <1>6, JobConstants DEF Init, TypeOK
<1>8. OneActiveJob /\ PaidOnce
  BY <1>3 DEF OneActiveJob, PaidOnce
<1>9. RunsOwnTheirJobs /\ UnclaimedUnpaid
  BY <1>1 DEF Init, RunsOwnTheirJobs, UnclaimedUnpaid
<1> QED
  BY <1>7, <1>8, <1>9 DEF IInv

LEMMA IInvStep == IInv /\ [Next]_vars => IInv'
<1>1. SUFFICES ASSUME IInv, [Next]_vars PROVE IInv'
  OBVIOUS
<1>2. Grows /\ TypeOK'
  BY <1>1, TableStep, TypeStep DEF IInv
<1>3. OneActiveJob'
  BY <1>1, <1>2, OneActiveStep DEF IInv
<1>4. RunsOwnTheirJobs' /\ UnclaimedUnpaid' /\ PaidOnce'
  BY <1>1, <1>2, OwnersStep DEF IInv
<1> QED
  BY <1>2, <1>3, <1>4 DEF IInv

\* IInv is an inductive invariant of the article jobs.
THEOREM Invariant == Spec => []IInv
BY InitIInv, IInvStep, PTL DEF Spec

\* The variables keep their types.
THEOREM TypeCorrect == Spec => []TypeOK
BY Invariant, PTL DEF IInv

\* An article never has two active jobs, whoever asks for one.
THEOREM OneActive == Spec => []OneActiveJob
BY Invariant, PTL DEF IInv

\* Model calls are made at most once for a job, whatever is repeated or lost.
THEOREM NeverPaidTwice == Spec => []PaidOnce
BY Invariant, PTL DEF IInv

\* An article waits for one job, and a job pays once.
THEOREM OneJob == Spec => []OneJobOnePayment
BY OneActive, NeverPaidTwice, PTL DEF OneJobOnePayment

LEMMA KeepsClosedStep == IInv /\ [Next]_vars => [KeepsClosed]_vars
<1>1. SUFFICES ASSUME IInv, [Next]_vars PROVE KeepsClosed \/ UNCHANGED vars
  OBVIOUS
<1>2. Grows
  BY <1>1, TableStep DEF IInv
<1> QED
  BY <1>2 DEF Grows, KeepsClosed

\* A closed job keeps its state and its reason.
THEOREM ClosedForGood == Spec => ClosedStaysClosed
BY KeepsClosedStep, Invariant, PTL DEF Spec, ClosedStaysClosed

LEMMA AppliesFreshStep == IInv /\ [Next]_vars => [AppliesFresh]_vars
<1>1. SUFFICES ASSUME IInv, [Next]_vars PROVE AppliesFresh \/ UNCHANGED vars
  OBVIOUS
<1>2. article \in [Articles -> ArticleRows]
  BY <1>1 DEF IInv, TypeOK
<1>3. UNCHANGED article => AppliesFresh
  BY DEF AppliesFresh
<1>4. ASSUME NEW a \in Articles, IngestWrite(a) PROVE AppliesFresh
  BY <1>2, <1>4 DEF IngestWrite, AppliesFresh, ArticleRows
<1>5. ASSUME NEW w \in Workers, Apply(w) PROVE AppliesFresh
  BY <1>2, <1>5 DEF Apply, Changed, AppliesFresh, ArticleRows
<1> QED
  BY <1>1, <1>3, <1>4, <1>5 DEF Next, Process, IngestRead, IngestAbort, Request, Publish,
     Recover, LoseMessage, Claim, RunScript, Read, Pay, Fails, Finish, RequestFresh, Crash, Tick

\* Results are only written that were made from the content the article has.
THEOREM NeverStale == Spec => NeverAppliesStale
BY AppliesFreshStep, Invariant, PTL DEF Spec, NeverAppliesStale
=============================================================================
