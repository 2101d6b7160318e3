---------------------------- MODULE ArticleJobs ----------------------------
(***************************************************************************)
(* The LLM work of an article.  A crawl writes an article and a queued job *)
(* in one transaction and sends a message after it; a worker claims the    *)
(* job, reads the article, pays for model calls without holding a lock,    *)
(* and applies the results in a transaction that compares the article with *)
(* what was read.  Messages are lost and repeated (acks_late), workers     *)
(* die, recover() re-sends queued jobs and closes overdue ones, crawls     *)
(* upgrade the content meanwhile, and a script runs the pipeline without a *)
(* job.  One action is one transaction, one unlocked read, or the calls    *)
(* between two of them; a crawl's transaction is two actions, because it   *)
(* reads the articles without locking them (MySQL, REPEATABLE READ).       *)
(* Content is its level: crawls only write content of a higher one.  Times *)
(* are kept as the ticks that remain.                                      *)
(***************************************************************************)
EXTENDS Naturals, Sequences

CONSTANTS
    Articles,      \* articles of the site
    Workers,       \* consumers of the llm queue, and shells that run the script
    NoOwner,       \* the claim of a job nobody has claimed
    Lifetime,      \* ticks a job may stay queued (24 hours)
    RunningLimit,  \* ticks a job may run (30 minutes)
    Spacings,      \* possible waits before a job is sent again
    Levels,        \* content levels (3: metadata_only, excerpt, full)
    MaxJobs        \* bound: jobs

ASSUME JobConstants ==
    /\ NoOwner \notin Workers
    /\ Lifetime \in Nat
    /\ RunningLimit \in Nat
    /\ Spacings \subseteq Nat
    /\ Levels \in Nat
    /\ MaxJobs \in Nat

VARIABLES
    article,  \* its content level (0: no such article yet), and the LLM result:
              \* the level of the content it was made from, 0 for none
    ingest,   \* what the open crawl transaction over the article saw of it
    jobs,     \* article_llm_job rows, in the order of their creation
    queue,    \* messages of the llm queue: job ids
    pc,       \* where each worker is in process() or in process_article()
    run,      \* what the worker holds
    paid      \* the times model calls were made for a job

vars == <<article, ingest, jobs, queue, pc, run, paid>>

NoJob == 0
Active == {"queued", "running"}
JobStates == Active \cup {"done", "failed", "expired"}
Verdicts == {"none", "done", "input_changed", "execution_error"}
Reasons == Verdicts \cup {"interrupted", "queue_expired"}
Steps == {"idle", "reading", "paying", "applying", "closing", "requesting"}

NoIngest == [open |-> FALSE, level |-> 0, processed |-> FALSE, active |-> FALSE]
NoRun(a) == [job |-> NoJob, article |-> a, force |-> FALSE, level |-> 0, moved |-> FALSE,
             verdict |-> "none"]

ArticleRows == [level: 0 .. Levels, processed: BOOLEAN, result: 0 .. Levels]
IngestRows == [open: BOOLEAN, level: 0 .. Levels, processed: BOOLEAN, active: BOOLEAN]
JobRows == [article: Articles, force: BOOLEAN, state: JobStates, reason: Reasons,
            owner: Workers \cup {NoOwner}, left: 0 .. Lifetime, wait: Nat,
            deadline: 0 .. RunningLimit]
Runs == [job: 0 .. MaxJobs, article: Articles, force: BOOLEAN, level: 0 .. Levels,
         moved: BOOLEAN, verdict: Verdicts]

TypeOK ==
    /\ article \in [Articles -> ArticleRows]
    /\ ingest \in [Articles -> IngestRows]
    /\ jobs \in Seq(JobRows)
    /\ Len(jobs) <= MaxJobs
    /\ queue \subseteq DOMAIN jobs
    /\ pc \in [Workers -> Steps]
    /\ run \in [Workers -> Runs]
    /\ paid \in [1 .. MaxJobs -> Nat]

\* An article that is not there (level 0), or was processed before it had jobs.
Kept(level) == [level |-> level, processed |-> level > 0, result |-> level]

Init ==
    /\ article \in [Articles -> {Kept(level) : level \in 0 .. Levels}]
    /\ ingest = [a \in Articles |-> NoIngest]
    /\ jobs = <<>>
    /\ queue = {}
    /\ pc = [w \in Workers |-> "idle"]
    /\ run \in {[w \in Workers |-> NoRun(a)] : a \in Articles}
    /\ paid = [j \in 1 .. MaxJobs |-> 0]

Exists(a) == article[a].level > 0

\* The active_article_id column: the article has a queued or running job.
HasActive(a) == \E j \in DOMAIN jobs : jobs[j].article = a /\ jobs[j].state \in Active

NewJob(a, force) ==
    [article |-> a, force |-> force, state |-> "queued", reason |-> "none",
     owner |-> NoOwner, left |-> Lifetime, wait |-> 0, deadline |-> 0]

\* A new row; active_article_id is unique.
Insert(a, force) ==
    /\ ~HasActive(a)
    /\ Len(jobs) < MaxJobs
    /\ jobs' = Append(jobs, NewJob(a, force))

\* article_jobs.enqueue: nothing if an active job of the article was seen.
Enqueue(a, force, seen) ==
    \/ seen /\ UNCHANGED jobs
    \/ ~seen /\ Insert(a, force)

\* Mutant of Closed: state and reason change places.
ClosedByReason(job, state, reason) ==
    [job EXCEPT !.state = reason, !.reason = state, !.left = 0, !.wait = 0, !.deadline = 0]

\* article_jobs._close.  Nothing reads the times of a closed job.
Closed(job, state, reason) ==
    [job EXCEPT !.state = state, !.reason = reason, !.left = 0, !.wait = 0, !.deadline = 0]

----------------------------------------------------------------------------
\* Where jobs come from.

\* A crawl's last transaction comes to the article, and reads it without a lock:
\* to create it, or to upgrade it to a higher content level.
IngestRead(a, level) ==
    /\ ~ingest[a].open
    /\ level > article[a].level
    /\ ingest' = [ingest EXCEPT ![a] = [open |-> TRUE, level |-> level,
                      processed |-> article[a].processed, active |-> HasActive(a)]]
    /\ UNCHANGED <<article, jobs, queue, pc, run, paid>>

\* The transaction commits.  The session writes the columns whose value differs
\* from the one it read: a processed flag and results that were already empty
\* then are not among them.
IngestWrite(a) ==
    LET seen == ingest[a] IN
    /\ seen.open
    /\ article' = [article EXCEPT ![a] = [level |-> seen.level,
                      processed |-> IF seen.processed THEN FALSE ELSE @.processed,
                      result |-> IF seen.processed THEN 0 ELSE @.result]]
    /\ Enqueue(a, FALSE, seen.active)
    /\ ingest' = [ingest EXCEPT ![a] = NoIngest]
    /\ UNCHANGED <<queue, pc, run, paid>>

\* The transaction is rolled back: a lost claim, a failure, or a job that someone
\* else made since (the unique column).
IngestAbort(a) ==
    /\ ingest[a].open
    /\ ingest' = [ingest EXCEPT ![a] = NoIngest]
    /\ UNCHANGED <<article, jobs, queue, pc, run, paid>>

\* article_jobs.request, for an administrator or an old message, and backfill.
Request(a, force) ==
    /\ Exists(a)
    /\ ~HasActive(a)
    /\ Enqueue(a, force, FALSE)
    /\ UNCHANGED <<article, ingest, queue, pc, run, paid>>

----------------------------------------------------------------------------
\* Sending and recovering.

\* article_jobs.publish, called after a job was made and from recover().  The
\* send follows the commit, and may fail.
Publish(j) ==
    /\ jobs[j].state = "queued"
    /\ jobs[j].wait = 0
    /\ \/ /\ jobs[j].left = 0
          /\ jobs' = [jobs EXCEPT ![j] = Closed(@, "expired", "queue_expired")]
          /\ UNCHANGED queue
       \/ /\ jobs[j].left > 0
          /\ \E n \in Spacings : jobs' = [jobs EXCEPT ![j].wait = n]
          /\ queue' \in {queue, queue \cup {j}}
    /\ UNCHANGED <<article, ingest, pc, run, paid>>

\* Mutant of Overdue: recovery only looks at queued jobs.
NeverOverdue(j) == FALSE

Overdue(j) == jobs[j].state = "running" /\ jobs[j].deadline = 0

\* Mutant of Recover: the job is queued again instead of closed.
RecoverRetries(j) ==
    /\ Overdue(j)
    /\ jobs' = [jobs EXCEPT ![j] = NewJob(@.article, @.force)]
    /\ UNCHANGED <<article, ingest, queue, pc, run, paid>>

\* article_jobs.recover on a running job past its deadline: closed, not retried.
\* On a queued job recover() goes on to publish it.
Recover(j) ==
    /\ Overdue(j)
    /\ jobs' = [jobs EXCEPT ![j] = Closed(@, "failed", "interrupted")]
    /\ UNCHANGED <<article, ingest, queue, pc, run, paid>>

LoseMessage(j) ==
    /\ j \in queue
    /\ queue' = queue \ {j}
    /\ UNCHANGED <<article, ingest, jobs, pc, run, paid>>

----------------------------------------------------------------------------
\* A worker's way through article_tasks.process.

GoTo(w, step) == pc' = [pc EXCEPT ![w] = step]

\* process_article is over, with held what the workers hold.  The script has no
\* job to close, and asks for no other.
Ends(w, verdict, held) ==
    LET rest == NoRun(run[w].article) IN
    \/ /\ run[w].job = NoJob
       /\ GoTo(w, "idle")
       /\ run' = [held EXCEPT ![w] = rest]
    \/ /\ run[w].job # NoJob
       /\ GoTo(w, "closing")
       /\ run' = [held EXCEPT ![w] = [rest EXCEPT !.job = run[w].job,
                                         !.force = run[w].force, !.verdict = verdict]]

Verdict(w, verdict) == Ends(w, verdict, run)

\* The worker is free again, and holds nothing.
Leave(w) ==
    /\ GoTo(w, "idle")
    /\ run' = [run EXCEPT ![w] = NoRun(run[w].article)]

Claimable(j) == jobs[j].state = "queued" /\ jobs[j].owner = NoOwner

\* article_jobs.claim, on a message that may come again.
Claim(w, j) ==
    /\ pc[w] = "idle"
    /\ j \in queue
    /\ \/ /\ Claimable(j) /\ jobs[j].left > 0
          /\ jobs' = [jobs EXCEPT ![j] = [@ EXCEPT !.state = "running", !.owner = w,
                                      !.left = 0, !.wait = 0, !.deadline = RunningLimit]]
          /\ run' = [run EXCEPT ![w] = [NoRun(jobs[j].article) EXCEPT
                                          !.job = j, !.force = jobs[j].force]]
          /\ GoTo(w, "reading")
          /\ queue' \in {queue, queue \ {j}}
       \/ /\ Claimable(j) /\ jobs[j].left = 0
          /\ jobs' = [jobs EXCEPT ![j] = Closed(@, "expired", "queue_expired")]
          /\ queue' = queue \ {j}
          /\ UNCHANGED <<run, pc>>
       \/ /\ ~Claimable(j)
          /\ queue' = queue \ {j}
          /\ UNCHANGED <<jobs, run, pc>>
    /\ UNCHANGED <<article, ingest, paid>>

\* scripts/run_llm_process.py: the pipeline without a job.
RunScript(w, a, force) ==
    /\ pc[w] = "idle"
    /\ Exists(a)
    /\ run' = [run EXCEPT ![w] = [NoRun(a) EXCEPT !.force = force]]
    /\ GoTo(w, "reading")
    /\ UNCHANGED <<article, ingest, jobs, queue, paid>>

Finished(w) == article[run[w].article].processed /\ ~run[w].force

\* process_article: the inputs are read once, before any paid call.
Read(w) ==
    LET a == run[w].article IN
    /\ pc[w] = "reading"
    /\ \/ /\ Finished(w)
          /\ Verdict(w, "done")
       \/ /\ ~Finished(w)
          /\ GoTo(w, "paying")
          /\ run' = [run EXCEPT ![w].level = article[a].level]
    /\ UNCHANGED <<article, ingest, jobs, queue, paid>>

\* The model calls.
Pay(w) ==
    /\ pc[w] = "paying"
    /\ paid' = IF run[w].job = NoJob THEN paid ELSE [paid EXCEPT ![run[w].job] = @ + 1]
    /\ GoTo(w, "applying")
    /\ UNCHANGED <<article, ingest, jobs, queue, run>>

\* Mutant of Changed: the results are applied without a look at the inputs.
NeverChanged(w) == FALSE

\* The article is not what was read any more: other content, or another
\* updated_at.
Changed(w) == article[run[w].article].level # run[w].level \/ run[w].moved

\* Workers that read article a before results are written for it may see so by
\* updated_at, which counts whole seconds; only a forced run gets to look.
Moved(a, visible) ==
    [v \in Workers |->
        IF run[v].article = a /\ run[v].force /\ pc[v] \in {"paying", "applying"}
        THEN [run[v] EXCEPT !.moved = run[v].moved \/ visible]
        ELSE run[v]]

\* process_article's last transaction, under the article's row lock.
Apply(w) ==
    LET a == run[w].article IN
    /\ pc[w] = "applying"
    /\ \/ /\ Finished(w)
          /\ Verdict(w, "done")
          /\ UNCHANGED article
       \/ /\ ~Finished(w) /\ Changed(w)
          /\ Verdict(w, "input_changed")
          /\ UNCHANGED article
       \/ /\ ~Finished(w) /\ ~Changed(w)
          /\ article' = [article EXCEPT ![a] = [@ EXCEPT !.processed = TRUE,
                                                         !.result = run[w].level]]
          /\ \E visible \in BOOLEAN : Ends(w, "done", Moved(a, visible))
    /\ UNCHANGED <<ingest, jobs, queue, paid>>

\* Any other exception of the pipeline.
Fails(w) ==
    /\ pc[w] \in {"reading", "paying", "applying"}
    /\ Verdict(w, "execution_error")
    /\ UNCHANGED <<article, ingest, jobs, queue, paid>>

\* article_jobs.finish: closes the job if it is still running under this claim.
Finish(w) ==
    LET j == run[w].job
        state == IF run[w].verdict = "done" THEN "done" ELSE "failed"
    IN /\ pc[w] = "closing"
       /\ jobs' = IF jobs[j].state = "running" /\ jobs[j].owner = w
                  THEN [jobs EXCEPT ![j] = Closed(@, state, run[w].verdict)] ELSE jobs
       /\ IF run[w].verdict = "input_changed"
          THEN GoTo(w, "requesting") /\ UNCHANGED run
          ELSE Leave(w)
       /\ UNCHANGED <<article, ingest, queue, paid>>

\* The fresh job for an article that changed, in a transaction of its own.
RequestFresh(w) ==
    /\ pc[w] = "requesting"
    /\ Enqueue(run[w].article, run[w].force, HasActive(run[w].article))
    /\ Leave(w)
    /\ UNCHANGED <<article, ingest, queue, paid>>

\* A worker that is killed, or whose database is away: nothing is cleaned up.
Crash(w) ==
    /\ pc[w] # "idle"
    /\ Leave(w)
    /\ UNCHANGED <<article, ingest, jobs, queue, paid>>

Less(n) == IF n = 0 THEN 0 ELSE n - 1

Tick ==
    /\ jobs' = [j \in DOMAIN jobs |-> [jobs[j] EXCEPT
                  !.left = Less(@), !.wait = Less(@), !.deadline = Less(@)]]
    /\ UNCHANGED <<article, ingest, queue, pc, run, paid>>

Process(w) ==
    \/ Read(w)
    \/ Pay(w)
    \/ Apply(w)
    \/ Fails(w)
    \/ Finish(w)
    \/ RequestFresh(w)
    \/ Crash(w)

Next ==
    \/ \E a \in Articles :
          \/ \E level \in 1 .. Levels : IngestRead(a, level)
          \/ IngestWrite(a)
          \/ IngestAbort(a)
          \/ \E force \in BOOLEAN : Request(a, force)
    \/ \E j \in DOMAIN jobs : Publish(j) \/ Recover(j) \/ LoseMessage(j)
    \/ \E w \in Workers :
          \/ Process(w)
          \/ \E j \in queue : Claim(w, j)
          \/ \E a \in Articles, force \in BOOLEAN : RunScript(w, a, force)
    \/ Tick

Spec == Init /\ [][Next]_vars

\* Beat runs recover() every minute and time passes; of the workers nothing is
\* assumed, they may never come back.
Fairness ==
    /\ WF_vars(Tick)
    /\ \A j \in 1 .. MaxJobs :
          WF_vars(j \in DOMAIN jobs /\ (Publish(j) \/ Recover(j)))

FairSpec == Spec /\ Fairness

----------------------------------------------------------------------------
\* What the durable jobs are for.

\* An article never has two active jobs, whoever asks for one.
OneActiveJob ==
    \A i, j \in DOMAIN jobs :
        jobs[i].state \in Active /\ jobs[j].state \in Active
            /\ jobs[i].article = jobs[j].article => i = j

\* "duplicate messages never pay twice", and neither does recovery: model calls
\* are made at most once for a job, though messages repeat and workers die.
PaidOnce == \A j \in DOMAIN jobs : paid[j] <= 1

\* An article waits for one job, and a job pays once.
OneJobOnePayment == OneActiveJob /\ PaidOnce

AppliesFresh ==
    \A a \in Articles :
        article'[a].result \notin {0, article[a].result} =>
            article'[a].result = article[a].level

\* "The final row lock and input check prevent concurrent consumers from applying
\* stale results": results are only ever written that were made from the content
\* the article has at that moment.
NeverAppliesStale == [][AppliesFresh]_vars

\* "If an article's content changes while its job runs, the job closes as
\* input_changed and a fresh job is queued for the new content": the results an
\* article shows were made from the content it shows.
ResultsAreCurrent ==
    \A a \in Articles : article[a].processed => article[a].result = article[a].level

KeepsClosed ==
    \A j \in DOMAIN jobs : jobs[j].state \notin Active =>
        jobs'[j].state = jobs[j].state /\ jobs'[j].reason = jobs[j].reason

\* A closed job stays closed, with the reason it was closed for: a worker that
\* comes back after recover() gave its job up does not turn it into a success.
ClosedStaysClosed == [][KeepsClosed]_vars

\* The inductive invariant behind these (proved in ArticleJobsProofs).  A worker
\* holds a job by the claim in its row, which is never given out again, and has
\* not paid for it before it comes to the model calls.
RunsOwnTheirJobs ==
    \A w \in Workers :
        /\ pc[w] \in {"closing", "requesting"} => run[w].job # NoJob
        /\ pc[w] # "idle" /\ run[w].job # NoJob =>
              /\ run[w].job \in DOMAIN jobs
              /\ jobs[run[w].job].owner = w
              /\ pc[w] \in {"reading", "paying"} => paid[run[w].job] = 0

\* Nobody has paid for a job nobody has claimed.
UnclaimedUnpaid ==
    \A j \in 1 .. MaxJobs :
        (j \in DOMAIN jobs => jobs[j].owner = NoOwner) => paid[j] = 0

IInv ==
    /\ TypeOK
    /\ OneActiveJob
    /\ RunsOwnTheirJobs
    /\ UnclaimedUnpaid
    /\ PaidOnce

\* No job stays active for ever, though every message be lost and every worker
\* die: a queued job expires and a running one is interrupted.
JobActive(j) == j \in DOMAIN jobs /\ jobs[j].state \in Active
JobsEnd == \A j \in 1 .. MaxJobs : JobActive(j) ~> ~JobActive(j)

\* "If an article's content changes while its job runs, the job closes as
\* input_changed and a fresh job is queued for the new content": an article
\* without results has an active job, unless its newest job failed or expired.
NewContentHasJob ==
    \A a \in Articles : Exists(a) /\ ~article[a].processed =>
        \/ HasActive(a)
        \/ \E j \in DOMAIN jobs :
              /\ jobs[j].article = a /\ jobs[j].state \in {"failed", "expired"}
              /\ \A i \in DOMAIN jobs : jobs[i].article = a => i <= j
=============================================================================
