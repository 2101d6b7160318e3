---------------------------- MODULE CompanyJobs ----------------------------
(***************************************************************************)
(* The durable jobs that pay for the analysis of one company: refreshes    *)
(* (company_refresh.py), one at a time, and the initial analysis of a      *)
(* company that discovery found in a directory (startup_analysis.py,       *)
(* startup_discovery.py).  Every transition is a transaction under the     *)
(* accounting mutex; directory pages, homepages and models are called      *)
(* outside.  Administrators edit, merge and delete the company and its     *)
(* source at any time, messages are lost or delivered again, and workers   *)
(* die.  Times are counted down to zero.                                   *)
(***************************************************************************)
EXTENDS Integers, FiniteSets

CONSTANTS
    MaxRefreshes, \* bound on the refresh jobs
    MaxJobs,      \* bound on all jobs, the initial analysis included
    MaxClaims,    \* bound on the deliveries of their messages
    Configs,      \* the routes of company_analysis that are not blocked
    QueueLife,    \* expires_at (24 h)
    RunLife,      \* deadline_at (180 s)
    Gap,          \* next_dispatch_at (121 s)
    MaxAttempts,  \* 3
    MaxEdits      \* bound on what administrators and other code change

\* Ids and claim ids are fresh: the next number.
Startup == 0
Refreshes == 1..MaxRefreshes
Jobs == Refreshes \cup {Startup}
Owners == 1..MaxClaims
None == -1

ASSUME CompanyConstants ==
    /\ {MaxRefreshes, MaxJobs, MaxClaims} \subseteq Nat
    /\ {QueueLife, RunLife, Gap, MaxAttempts} \subseteq Nat \ {0}
    /\ MaxEdits \in Nat

VARIABLES
    company,  \* what the generation protects, and the generation
    origin,   \* startup_source: its generation and is_active
    scan,     \* the source's generation that a scan has captured, or -1
    job,      \* company_refresh_job and startup_analysis_job; read is what the
              \* prompt was built from
    mail,     \* messages of the llm queue that wait
    owner,    \* the deliveries: which job, and how far
    edits

companyVars == <<company, origin, scan, job, mail, owner, edits>>

Values == [facts: Nat, analysis: Nat]
Companies == [there: {"absent", "there", "deleted"}, values: Values, gen: Nat]
JobStates == {"none", "queued", "running", "succeeded", "blocked", "stale"}
JobRows == [state: JobStates, owner: Owners \cup {None}, prompt: BOOLEAN, gen: Nat, sgen: Nat,
            ttl: 0..QueueLife, left: 0..RunLife, wait: 0..Gap,
            tried: SUBSET Configs, unsettled: BOOLEAN, read: Values]
Phases == {"new", "claimed", "bound", "checked", "calling", "answered", "failing", "done"}

NoValues == [facts |-> 0, analysis |-> 0]
NoRow == [state |-> "none", owner |-> None, prompt |-> FALSE, gen |-> 0, sgen |-> 0,
          ttl |-> 0, left |-> 0, wait |-> 0, tried |-> {}, unsettled |-> FALSE, read |-> NoValues]
Row(gen, sgen) == [NoRow EXCEPT !.state = "queued", !.ttl = QueueLife, !.gen = gen, !.sgen = sgen]

Room == Cardinality({j \in Jobs : job[j].state # "none"}) < MaxJobs
Active(j) == job[j].state \in {"queued", "running"}
There == company.there = "there"
Runs(o, j) == owner[o].job = j /\ job[j].state = "running" /\ job[j].owner = o

CompanyInit ==
    /\ company = [there |-> "absent", values |-> NoValues, gen |-> 0]
    /\ origin = [gen |-> 0, active |-> TRUE]
    /\ scan = -1
    /\ job = [j \in Jobs |-> NoRow]
    /\ mail = {}
    /\ owner = [o \in Owners |-> [job |-> None, phase |-> "new"]]
    /\ edits = 0

(***************************************************************************)
(* The company, its source and discovery.                                  *)
(***************************************************************************)
\* The mutant forgets that the analysis is one of them.
FlushedFacts(c, values) ==
    [c EXCEPT !.values = values, !.gen = IF values.facts = c.values.facts THEN @ ELSE @ + 1]
\* A mapper event: a flush that changes any of the values takes the next generation.
Flushed(c, values) ==
    [c EXCEPT !.values = values, !.gen = IF values = c.values THEN @ ELSE @ + 1]

Counted == edits < MaxEdits /\ edits' = edits + 1

\* The forms of a company, a merge into it, and its deletion.
EditFacts ==
    /\ There /\ Counted
    /\ company' = Flushed(company, [company.values EXCEPT !.facts = @ + 1])
    /\ UNCHANGED <<origin, scan, job, mail, owner>>
EditAnalysis ==
    /\ There /\ Counted
    /\ company' = Flushed(company, [company.values EXCEPT !.analysis = @ + 1])
    /\ UNCHANGED <<origin, scan, job, mail, owner>>
DeleteCompany ==
    /\ There /\ Counted
    /\ company' = [company EXCEPT !.there = "deleted"]
    /\ UNCHANGED <<origin, scan, job, mail, owner>>

\* An article names the company first, or a script seeds it: no job follows.
AddCompany ==
    /\ company.there = "absent"
    /\ company' = [company EXCEPT !.there = "there", !.values.facts = 1]
    /\ UNCHANGED <<origin, scan, job, mail, owner, edits>>

EditSource ==
    /\ Counted
    /\ \E active \in BOOLEAN : origin' = [gen |-> origin.gen + 1, active |-> active]
    /\ UNCHANGED <<company, scan, job, mail, owner>>

\* The scan reads the source, and its pages without any lock.
ScanReads ==
    /\ scan = -1 /\ Room /\ origin.active /\ company.there = "absent"
    /\ scan' = origin.gen
    /\ UNCHANGED <<company, origin, job, mail, owner, edits>>

\* Company and job are saved together, if the source is as it was captured.
ScanSaves ==
    /\ scan # -1
    /\ scan' = -1
    /\ IF origin.gen = scan /\ origin.active /\ company.there = "absent"
       THEN LET values == [NoValues EXCEPT !.facts = 1] IN
            /\ company' = [company EXCEPT !.there = "there", !.values = values]
            /\ job' = [job EXCEPT ![Startup] = [Row(company.gen, origin.gen) EXCEPT !.read = values]]
       ELSE UNCHANGED <<company, job>>
    /\ UNCHANGED <<origin, mail, owner, edits>>

(***************************************************************************)
(* The life of a job up to its claim.                                      *)
(***************************************************************************)
\* A refresh that is active absorbs further requests.
MayRequest == There /\ \A k \in Refreshes : ~Active(k)
Request(j) ==
    /\ job[j].state = "none" /\ \A k \in 1..(j - 1) : job[k].state # "none"
    /\ MayRequest /\ Room
    /\ job' = [job EXCEPT ![j] = Row(0, 0)]
    /\ UNCHANGED <<company, origin, scan, mail, owner, edits>>

\* What an initial analysis was built from is still so.
Current ==
    /\ There /\ origin.active
    /\ company.values.analysis = 0
    /\ origin.gen = job[Startup].sgen
    /\ company.gen = job[Startup].gen /\ company.values = job[Startup].read

\* What else a closed row holds is not looked at again.
Closed(j, state) == [job EXCEPT ![j] = [NoRow EXCEPT !.state = state]]

\* After the request, and for what recovery finds waiting; the broker may lose it.
Publish(j) ==
    /\ job[j].state = "queued" /\ job[j].wait = 0
    /\ IF job[j].ttl = 0
       THEN job' = Closed(j, "blocked") /\ UNCHANGED mail
       ELSE /\ j = Startup => Current
            /\ job' = [job EXCEPT ![j].wait = Gap]
            /\ mail' \in {mail, mail \cup {j}}
    /\ UNCHANGED <<company, origin, scan, owner, edits>>

\* What recovery closes.
Recover(j) ==
    /\ \/ job[j].state = "queued" /\ job[j].wait = 0
       \/ job[j].state = "running" /\ job[j].left = 0
    /\ \/ /\ job[j].ttl = 0 \/ job[j].state = "running"
          /\ job' = Closed(j, "blocked")
       \/ /\ j = Startup /\ job[j].state = "queued" /\ job[j].ttl > 0 /\ ~Current
          /\ job' = Closed(j, "stale")
    /\ UNCHANGED <<company, origin, scan, mail, owner, edits>>

\* A queued row that was claimed or paid for before is no permission to pay.
Fresh(j) == job[j].owner = None /\ job[j].tried = {}
Usable(j) == IF j = Startup THEN Current ELSE There

Gone == [job |-> None, phase |-> "done"]
Leave(o) == owner' = [owner EXCEPT ![o] = Gone]

\* Of a row that is claimed, expiry and dispatch time are not looked at again.
Claim(o, j) ==
    /\ owner[o].phase = "new" /\ \A p \in 1..(o - 1) : owner[p].phase # "new"
    /\ j \in mail
    /\ mail' = mail \ {j}
    /\ \/ /\ job[j].state = "queued" /\ job[j].ttl > 0 /\ Usable(j) /\ Fresh(j)
          /\ job' = [job EXCEPT ![j].state = "running", ![j].owner = o,
                                ![j].ttl = 0, ![j].wait = 0,
                                ![j].gen = company.gen,
                                ![j].left = IF job[j].ttl < RunLife THEN job[j].ttl ELSE RunLife,
                                ![j].read = company.values]
          /\ owner' = [owner EXCEPT ![o] = [job |-> j, phase |-> "claimed"]]
       \/ /\ job[j].state = "queued" /\ ~(job[j].ttl > 0 /\ Usable(j) /\ Fresh(j))
          /\ job' = Closed(j, IF job[j].ttl > 0 /\ ~Usable(j) THEN "stale" ELSE "blocked")
          /\ Leave(o)
       \/ /\ job[j].state # "queued"
          /\ Leave(o)
          /\ UNCHANGED job
    /\ UNCHANGED <<company, origin, scan, edits>>

(***************************************************************************)
(* A delivery at work.  It holds no lock between these steps.              *)
(***************************************************************************)
Phase(o, p) == owner' = [owner EXCEPT ![o].phase = p]
InPhase(o, p) == owner[o].phase = p
Alone == UNCHANGED <<company, origin, scan, mail, edits>>

\* After the homepage was read: the prompt is fixed.  An initial analysis has
\* had its prompt since it was created.
Prepare(o) ==
    LET j == owner[o].job IN
    /\ InPhase(o, "claimed")
    /\ IF j = Startup
       THEN Phase(o, "bound") /\ UNCHANGED job
       ELSE IF Runs(o, j) /\ ~job[j].prompt
       THEN job' = [job EXCEPT ![j].prompt = TRUE] /\ Phase(o, "bound")
       ELSE Phase(o, "failing") /\ UNCHANGED job
    /\ Alone

\* The call names the job and not the delivery: the prompt tells that it is still this one.
Calling(j) ==
    /\ job[j].state = "running" /\ job[j].owner # None /\ job[j].left > 0
    /\ IF j = Startup THEN Current
       ELSE job[j].prompt /\ There /\ company.gen = job[j].gen

\* A cached answer also needs the current claim.
Check(o) ==
    /\ InPhase(o, "bound")
    /\ Phase(o, IF Calling(owner[o].job) THEN "checked" ELSE "failing")
    /\ UNCHANGED job /\ Alone
Cached(o) ==
    /\ InPhase(o, "checked")
    /\ Phase(o, "answered")
    /\ UNCHANGED job /\ Alone

Admits(j, c) ==
    /\ Calling(j)
    /\ Cardinality(job[j].tried) < MaxAttempts
    /\ c \notin job[j].tried /\ ~job[j].unsettled

\* The reservation of one paid attempt.
Admit(o, c) ==
    LET j == owner[o].job IN
    /\ InPhase(o, "checked")
    /\ Admits(j, c)
    /\ job' = [job EXCEPT ![j].tried = @ \cup {c}, ![j].unsettled = TRUE]
    /\ Phase(o, "calling")
    /\ Alone

\* Not admitted, changed configuration, no budget or no route left.
Refuse(o) ==
    /\ InPhase(o, "checked")
    /\ Phase(o, "failing")
    /\ UNCHANGED job /\ Alone

\* The call is settled and answered, or settled and goes on to the next
\* route; without a settlement nothing follows.
Answer(o) ==
    /\ InPhase(o, "calling")
    /\ \/ /\ job' = [job EXCEPT ![owner[o].job].unsettled = FALSE]
          /\ \E p \in {"answered", "checked"} : Phase(o, p)
       \/ Phase(o, "failing") /\ UNCHANGED job
    /\ Alone

\* The job is still this delivery's, in time, and built on what is there.
Applies(j) ==
    IF j = Startup THEN Current ELSE There /\ company.gen = job[j].gen

\* The acknowledgement of the commit may be lost: the worker takes it for a failure.
Finish(o) ==
    LET j == owner[o].job IN
    /\ InPhase(o, "answered")
    /\ IF ~Runs(o, j) THEN UNCHANGED <<job, company>>
       ELSE IF job[j].left = 0 THEN job' = Closed(j, "blocked") /\ UNCHANGED company
       ELSE IF ~Applies(j) THEN job' = Closed(j, "stale") /\ UNCHANGED company
       ELSE /\ job' = Closed(j, "succeeded")
            /\ company' = Flushed(company, [company.values EXCEPT !.analysis = @ + 1])
    /\ Leave(o) \/ Phase(o, "failing")
    /\ UNCHANGED <<origin, scan, mail, edits>>

\* Any error on the way; ownership also fences it.
Fail(o) ==
    LET j == owner[o].job IN
    /\ InPhase(o, "failing")
    /\ job' = IF ~Runs(o, j) THEN job
              ELSE Closed(j, IF j = Startup /\ ~Current THEN "stale" ELSE "blocked")
    /\ Leave(o)
    /\ Alone

\* A worker dies, and its message, not yet acknowledged, is delivered again.
Die(o) ==
    /\ owner[o].phase \notin {"new", "done"}
    /\ mail' = mail \cup {owner[o].job}
    /\ Leave(o)
    /\ UNCHANGED <<company, origin, scan, job, edits>>

Less(n) == IF n = 0 THEN 0 ELSE n - 1
Aged(r) ==
    IF r.state = "queued" THEN [r EXCEPT !.ttl = Less(@), !.wait = Less(@)]
    ELSE IF r.state = "running" THEN [r EXCEPT !.left = Less(@)]
    ELSE r
CompanyTick ==
    /\ \E j \in Jobs : Active(j)
    /\ job' = [j \in Jobs |-> Aged(job[j])]
    /\ UNCHANGED owner /\ Alone

CompanyNext ==
    \/ EditFacts \/ EditAnalysis \/ DeleteCompany \/ AddCompany \/ EditSource
    \/ ScanReads \/ ScanSaves
    \/ \E j \in Refreshes : Request(j)
    \/ \E j \in Jobs : Publish(j) \/ Recover(j) \/ \E o \in Owners : Claim(o, j)
    \/ \E o \in Owners :
           \/ Prepare(o) \/ Check(o) \/ Cached(o) \/ Refuse(o) \/ Answer(o)
           \/ Finish(o) \/ Fail(o) \/ Die(o)
           \/ \E c \in Configs : Admit(o, c)
    \/ CompanyTick

\* Time passes and recovery is sent every minute; workers and messages promise nothing.
CompanyFairness ==
    /\ WF_companyVars(CompanyTick)
    /\ \A j \in Jobs : WF_companyVars(Recover(j))

CompanyTypeOK ==
    /\ company \in Companies
    /\ origin \in [gen: Nat, active: BOOLEAN]
    /\ scan \in Int
    /\ job \in [Jobs -> JobRows]
    /\ mail \subseteq Jobs
    /\ owner \in [Owners -> [job: Jobs \cup {None}, phase: Phases]]
    /\ edits \in 0..MaxEdits

\* At most one refresh is queued or running for the company, an analysis is
\* saved only on top of exactly what its prompt was built from (an edit in
\* between is never overwritten, and an initial analysis never follows
\* another), and of all the deliveries of a job only the one that holds it is
\* admitted a paid call, by a route not tried yet and with nothing unsettled,
\* though the admission is asked for in the name of the job alone.
OneActiveRefresh == \A j, k \in Refreshes : Active(j) /\ Active(k) => j = k
SavedOnWhatWasRead ==
    \A j \in Jobs :
        job[j].state # "succeeded" /\ job'[j].state = "succeeded" =>
            There /\ company.values = job[j].read
PaidByTheClaim ==
    \A o \in Owners :
        LET j == owner[o].job IN
        InPhase(o, "checked") /\ InPhase(o, "calling")' =>
            /\ Runs(o, j) /\ ~job[j].unsettled
            /\ job'[j].tried # job[j].tried
CompanyResultsSound ==
    /\ []OneActiveRefresh
    /\ [][SavedOnWhatWasRead /\ PaidByTheClaim]_companyVars

\* Every job that is waiting or at work is closed in the end, whatever is
\* lost or dies, and stays so.
CompanyJobsEnd == \A j \in Jobs : []<>~Active(j)

CompanySpec == CompanyInit /\ [][CompanyNext]_companyVars /\ CompanyFairness
=============================================================================
