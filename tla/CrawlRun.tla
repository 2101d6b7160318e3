------------------------------ MODULE CrawlRun ------------------------------
(***************************************************************************)
(* The crawl runtime of FSourceInsight: every source has one row of        *)
(* crawl_source_state with its next due time, a lease and a fence.  A      *)
(* dispatcher claims due sources and sends their ids to workers over a     *)
(* queue that may lose or repeat messages; a worker re-reads the claim,    *)
(* resolves the route, fetches without holding a lock, and writes its      *)
(* articles in one transaction that first proves the claim is still its    *)
(* own.  Administrators meanwhile pause, edit, disable, approve and        *)
(* retire.  One action is one database transaction (or one unlocked read). *)
(*                                                                         *)
(* Times are kept as the ticks that remain: lease = 0 is an expired lease, *)
(* due = 0 is a source that is due.  The claim identity (a UUID) is the    *)
(* index of the run's row in crawl_log; both are fresh for every claim.    *)
(***************************************************************************)
EXTENDS Naturals, Sequences

CONSTANTS
    Sources,         \* news sources
    Workers,         \* Celery processes that execute crawl_source
    Lease,           \* length of a lease in ticks (15 minutes)
    TimeLimit,       \* ticks after which Celery stops a task (10 minutes)
    Cooldown,        \* delay after a blocked run (24 hours)
    RetryDelays,     \* possible delays after a retryable failure
    PeriodDelays,    \* possible delays after a success or a bad extraction
    AttentionAfter,  \* failures before a bad extraction raises attention (3)
    MaxClaims,       \* bound: rows of crawl_log
    MaxEdits,        \* bound: edits of one source
    MaxGen           \* bound: activation decisions of one source

ASSUME ConstantsAssumption ==
    /\ Lease \in Nat \ {0}
    /\ TimeLimit \in Nat
    /\ Cooldown \in Nat
    /\ RetryDelays \subseteq Nat
    /\ PeriodDelays \subseteq Nat
    /\ AttentionAfter \in Nat \ {0}
    /\ MaxClaims \in Nat
    /\ MaxEdits \in Nat
    /\ MaxGen \in Nat

VARIABLES
    source,   \* news_source: enabled, and a revision of (url, feed_url, updated_at)
    profile,  \* crawl_source_profile: activation generation, route, what it is bound to
    state,    \* crawl_source_state
    log,      \* crawl_log columns written at the claim: source, fence, generation
    outcome,  \* crawl_log.outcome, "running" until the run ends
    store,    \* the runs that wrote articles of a source, in order
    queue,    \* messages of the crawl queue: the claims to execute
    pc,       \* where each worker is in runs.execute
    run       \* the worker's Claim, route and input

vars == <<source, profile, state, log, outcome, store, queue, pc, run>>

NoClaim == 0
Failures == {"failed", "blocked", "stale", "lease_expired"}
Outcomes == Failures \cup {"running", "success"}
FailureKinds == {"retry", "blocked", "extraction"}
Kinds == FailureKinds \cup {"ok"}
Reasons == {"initial", "claimed", "manual", "activation", "schedule", "retry", "cooldown"}
Steps == {"idle", "routing", "reading", "fetching", "abandoning", "stale"}

NoRow == [exists |-> FALSE, due |-> 0, reason |-> "initial", failures |-> 0,
          attention |-> "none", claim |-> NoClaim, lease |-> 0, fence |-> 0,
          paused |-> FALSE]
NoRun == [claim |-> NoClaim, fence |-> 0, gen |-> 0, route |-> "none", rev |-> 0,
          kind |-> "ok", ran |-> 0]

Rows == [exists: BOOLEAN, due: Nat, reason: Reasons, failures: Nat,
         attention: {"none", "blocked", "extraction"}, claim: Nat, lease: Nat,
         fence: Nat, paused: BOOLEAN]
Profiles == [gen: Nat, schema: BOOLEAN, bound: BOOLEAN, policy: BOOLEAN]
LogRows == [source: Sources, fence: Nat, gen: Nat]
Runs == [claim: Nat, fence: Nat, gen: Nat, route: {"none", "legacy", "schema"},
         rev: Nat, kind: Kinds, ran: Nat]

TypeOK ==
    /\ source \in [Sources -> [active: BOOLEAN, rev: Nat]]
    /\ profile \in [Sources -> Profiles]
    /\ state \in [Sources -> Rows]
    /\ log \in Seq(LogRows)
    /\ outcome \in Seq(Outcomes)
    /\ Len(outcome) = Len(log)
    /\ store \in [Sources -> Seq(Nat)]
    /\ queue \subseteq DOMAIN log
    /\ pc \in [Workers -> Steps]
    /\ run \in [Workers -> Runs]

Init ==
    /\ source = [s \in Sources |-> [active |-> TRUE, rev |-> 0]]
    /\ profile = [s \in Sources |->
          [gen |-> 0, schema |-> FALSE, bound |-> FALSE, policy |-> FALSE]]
    /\ state = [s \in Sources |-> NoRow]
    /\ log = <<>>
    /\ outcome = <<>>
    /\ store = [s \in Sources |-> <<>>]
    /\ queue = {}
    /\ pc = [w \in Workers |-> "idle"]
    /\ run = [w \in Workers |-> NoRun]

----------------------------------------------------------------------------
\* Claiming.

\* Mutant of Live: a claim whose lease ran out still blocks the next one.
LiveWhileClaimed(s) == state[s].claim # NoClaim

\* runs._live: claimed and the lease has not run out.
Live(s) == state[s].claim # NoClaim /\ state[s].lease > 0

\* runs.ensure_states: an active source without a row gets one, due by the
\* normal rule from its last crawl (now, if it was never crawled).
EnsureState(s) ==
    /\ source[s].active
    /\ ~state[s].exists
    /\ \E d \in PeriodDelays \cup {0} :
          state' = [state EXCEPT ![s] = [@ EXCEPT !.exists = TRUE, !.due = d]]
    /\ UNCHANGED <<source, profile, log, outcome, store, queue, pc, run>>

\* Mutant of ExpireOld: the claim forgets the run it takes over from.
ExpireNothing(s) == outcome

\* The run that held the row before and is still running ends as lease_expired.
ExpireOld(s) ==
    [i \in DOMAIN outcome |->
        IF i = state[s].claim /\ outcome[i] = "running" THEN "lease_expired"
        ELSE outcome[i]]

\* runs.claim: the transaction that opens a run; the message goes to the queue
\* after its commit (a failed send is LoseMessage).
Claim(s, dueOnly) ==
    /\ Len(log) < MaxClaims
    /\ state[s].exists
    /\ source[s].active
    /\ ~state[s].paused
    /\ dueOnly => state[s].due = 0
    /\ ~Live(s)
    /\ log' = Append(log, [source |-> s, fence |-> state[s].fence + 1,
                           gen |-> profile[s].gen])
    /\ outcome' = Append(ExpireOld(s), "running")
    /\ state' = [state EXCEPT ![s] = [@ EXCEPT !.fence = state[s].fence + 1,
                                              !.claim = Len(log) + 1,
                                              !.reason = "claimed",
                                              !.lease = Lease]]
    /\ queue' = queue \cup {Len(log) + 1}
    /\ UNCHANGED <<source, profile, store, pc, run>>

\* tasks.dispatch_due_crawls and runs.claim_due: every source it lists passes
\* through claim again, which repeats the listing's conditions under the lock.
DispatchDue(s) == Claim(s, TRUE)

\* scripts/run_crawl.py claims whether or not the source is due.
ManualClaim(s) == Claim(s, FALSE)

\* A send that failed, a dispatcher that died before it, or a broker that lost it.
LoseMessage(c) ==
    /\ c \in queue
    /\ queue' = queue \ {c}
    /\ UNCHANGED <<source, profile, state, log, outcome, store, pc, run>>

----------------------------------------------------------------------------
\* A worker's way through runs.execute.

SourceOf(w) == log[run[w].claim].source

GoTo(w, step) == pc' = [pc EXCEPT ![w] = step]
Finish(w) == GoTo(w, "idle") /\ run' = [run EXCEPT ![w] = NoRun]

\* runs.current, on a message that may be delivered again: a claim that is no
\* longer current is dropped.
Start(w, c) ==
    LET s == log[c].source IN
    /\ pc[w] = "idle"
    /\ c \in queue
    /\ \/ /\ state[s].claim = c /\ Live(s)
          /\ queue' \in {queue, queue \ {c}}
          /\ GoTo(w, "routing")
          /\ run' = [run EXCEPT ![w] = [NoRun EXCEPT !.claim = c,
                                          !.fence = state[s].fence, !.gen = log[c].gen]]
       \/ /\ ~(state[s].claim = c /\ Live(s))
          /\ queue' = queue \ {c}
          /\ UNCHANGED <<pc, run>>
    /\ UNCHANGED <<source, profile, state, log, outcome, store>>

\* activation.route: an activation since the claim loses the run; a source
\* routed to a recipe is blocked, never sent to its legacy crawler.
Route(w) ==
    LET p == profile[SourceOf(w)] IN
    /\ pc[w] = "routing"
    /\ \/ /\ p.gen # run[w].gen
          /\ GoTo(w, "stale")
          /\ UNCHANGED run
       \/ /\ p.gen = run[w].gen /\ ~p.schema
          /\ GoTo(w, "fetching")
          /\ run' = [run EXCEPT ![w].route = "legacy"]
       \/ /\ p.gen = run[w].gen /\ p.schema /\ ~(p.bound /\ p.policy)
          /\ GoTo(w, "abandoning")
          /\ run' = [run EXCEPT ![w].route = "schema", ![w].kind = "blocked"]
       \/ /\ p.gen = run[w].gen /\ p.schema /\ p.bound /\ p.policy
          /\ GoTo(w, "reading")
          /\ run' = [run EXCEPT ![w].route = "schema"]
    /\ UNCHANGED <<source, profile, state, log, outcome, store, queue>>

\* _ingestion.run reads its input before the fetch; on a disabled source it
\* raises, and the claim is left to expire.
ReadSource(w) ==
    /\ pc[w] = "reading"
    /\ \/ /\ source[SourceOf(w)].active
          /\ GoTo(w, "fetching")
          /\ run' = [run EXCEPT ![w].rev = source[SourceOf(w)].rev]
       \/ /\ ~source[SourceOf(w)].active
          /\ Finish(w)
    /\ UNCHANGED <<source, profile, state, log, outcome, store, queue>>

\* Mutants of Holds: only the generation, or everything but the generation.
HoldsGeneration(w) == profile[SourceOf(w)].gen = run[w].gen
HoldsClaim(w) ==
    LET s == SourceOf(w) IN
    /\ state[s].claim = run[w].claim
    /\ state[s].fence = run[w].fence
    /\ Live(s)

\* runs.lock: what the final transaction proves under its locks.
Holds(w) ==
    LET s == SourceOf(w) IN
    /\ state[s].claim = run[w].claim
    /\ state[s].fence = run[w].fence
    /\ Live(s)
    /\ profile[s].gen = run[w].gen

\* The delays schedule.next_due may give, and the due_reason it leaves.
Delays(kind) ==
    CASE kind = "retry" -> RetryDelays
      [] kind = "blocked" -> {Cooldown}
      [] OTHER -> PeriodDelays
ReasonAfter(kind) ==
    CASE kind = "retry" -> "retry"
      [] kind = "blocked" -> "cooldown"
      [] OTHER -> "schedule"

\* consecutive_failures, counted up to AttentionAfter: nothing looks further.
FailuresAfter(n, kind) ==
    IF kind = "ok" THEN 0 ELSE IF n < AttentionAfter THEN n + 1 ELSE n

AttentionSetBy(old, n, kind) ==
    CASE kind = "ok" -> "none"
      [] kind = "blocked" -> "blocked"
      [] kind = "extraction" /\ n >= AttentionAfter -> "extraction"
      [] OTHER -> old

\* Mutant of OutcomeOf: the log takes the category of the error for the outcome.
OutcomeIsCategory(kind) == kind

\* What the log of a settled run says of it.
OutcomeOf(kind) ==
    CASE kind = "ok" -> "success" [] kind = "blocked" -> "blocked" [] OTHER -> "failed"

\* runs.settle: ends the run, sets the next due time and gives the claim back.
Settled(row, d, kind) ==
    LET n == FailuresAfter(row.failures, kind) IN
    [row EXCEPT !.due = d, !.reason = ReasonAfter(kind), !.failures = n,
                !.attention = AttentionSetBy(@, n, kind),
                !.claim = NoClaim, !.lease = 0]
Settle(w, kind) ==
    /\ \E d \in Delays(kind) :
          state' = [state EXCEPT ![SourceOf(w)] = Settled(@, d, kind)]
    /\ outcome' = [outcome EXCEPT ![run[w].claim] = OutcomeOf(kind)]

\* _ingestion.run compares the source with what it read; the legacy path does not.
InputChanged(w) ==
    /\ run[w].route = "schema"
    /\ ~source[SourceOf(w)].active \/ source[SourceOf(w)].rev # run[w].rev

\* The final transaction of BaseCrawler.run and _ingestion.run.  A legacy crawl
\* only gets here when its fetch succeeded; a recipe run also settles a failed
\* preview here, and then writes no article.
Commit(w, kind) ==
    /\ pc[w] = "fetching"
    /\ run[w].route = "legacy" => kind = "ok"
    /\ Holds(w)
    /\ ~InputChanged(w)
    /\ Settle(w, kind)
    /\ store' = IF kind = "ok"
                THEN [store EXCEPT ![SourceOf(w)] = Append(@, run[w].claim)]
                ELSE store
    /\ Finish(w)
    /\ UNCHANGED <<source, profile, log, queue>>

\* The final transaction finds the claim lost, or the recipe's source changed.
CommitRefused(w) ==
    /\ pc[w] = "fetching"
    /\ \/ /\ ~Holds(w)
          /\ GoTo(w, "stale")
          /\ UNCHANGED run
       \/ /\ Holds(w) /\ InputChanged(w)
          /\ GoTo(w, "abandoning")
          /\ run' = [run EXCEPT ![w].kind = "extraction"]
    /\ UNCHANGED <<source, profile, state, log, outcome, store, queue>>

\* An exception before the commit: any failure of a legacy fetch (the soft time
\* limit is a retryable one), a database error or a bad article of a recipe run.
Fails(w, kind) ==
    /\ pc[w] = "fetching"
    /\ run[w].route = "schema" => kind # "blocked"
    /\ GoTo(w, "abandoning")
    /\ run' = [run EXCEPT ![w].kind = kind]
    /\ UNCHANGED <<source, profile, state, log, outcome, store, queue>>

\* runs.abandon: settle as failed, if the claim still holds.
Abandon(w) ==
    /\ pc[w] = "abandoning"
    /\ \/ /\ Holds(w)
          /\ Settle(w, run[w].kind)
          /\ Finish(w)
       \/ /\ ~Holds(w)
          /\ GoTo(w, "stale")
          /\ UNCHANGED <<state, outcome, run>>
    /\ UNCHANGED <<source, profile, log, store, queue>>

\* The claim given back.
Released(row) == [row EXCEPT !.claim = NoClaim, !.lease = 0]

\* Mutant of MarkStale: it ends the log whatever became of it.
MarkStaleAlways(w) ==
    LET s == SourceOf(w) IN
    /\ pc[w] = "stale"
    /\ outcome' = [outcome EXCEPT ![run[w].claim] = "stale"]
    /\ state' = IF state[s].claim = run[w].claim /\ state[s].fence = run[w].fence
                THEN [state EXCEPT ![s] = Released(@)] ELSE state
    /\ Finish(w)
    /\ UNCHANGED <<source, profile, log, store, queue>>

\* runs.mark_stale: end the log if it is still running, and give the claim back
\* if it is still this worker's (its lease ran out, or an activation came between).
MarkStale(w) ==
    LET s == SourceOf(w) IN
    /\ pc[w] = "stale"
    /\ outcome' = IF outcome[run[w].claim] = "running"
                  THEN [outcome EXCEPT ![run[w].claim] = "stale"] ELSE outcome
    /\ state' = IF state[s].claim = run[w].claim /\ state[s].fence = run[w].fence
                THEN [state EXCEPT ![s] = Released(@)] ELSE state
    /\ Finish(w)
    /\ UNCHANGED <<source, profile, log, store, queue>>

\* A killed process, an exception nobody catches, a database that is away: the
\* worker stops where it is and the row keeps its claim until the lease ends.
Crash(w) ==
    /\ pc[w] # "idle"
    /\ Finish(w)
    /\ UNCHANGED <<source, profile, state, log, outcome, store, queue>>

----------------------------------------------------------------------------
\* Administration, and time.

\* admin.source_edit and source_toggle: a change of the extraction inputs (the
\* enabled flag is one) takes away what policy and recipe are bound to.
EditSource(s, active, inputs) ==
    /\ source[s].rev < MaxEdits
    /\ source' = [source EXCEPT ![s] = [active |-> active, rev |-> @.rev + 1]]
    /\ profile' = IF inputs \/ active # source[s].active
                  THEN [profile EXCEPT ![s] = [@ EXCEPT !.bound = FALSE, !.policy = FALSE]]
                  ELSE profile
    /\ UNCHANGED <<state, log, outcome, store, queue, pc, run>>

\* crawl_policy.index: a grant needs an enabled source, a revocation does not.
SetPolicy(s, granted) ==
    /\ granted => source[s].active
    /\ profile[s].policy # granted
    /\ profile' = [profile EXCEPT ![s].policy = granted]
    /\ UNCHANGED <<source, state, log, outcome, store, queue, pc, run>>

\* The row, made if it is missing, due at once.
DueNow(row, reason) == [row EXCEPT !.exists = TRUE, !.due = 0, !.reason = reason]

\* activation.approve and rollback: another recipe, due at once.
Activate(s) ==
    /\ profile[s].gen < MaxGen
    /\ source[s].active
    /\ profile[s].policy
    /\ profile' = [profile EXCEPT ![s] = [@ EXCEPT !.gen = profile[s].gen + 1,
                                                  !.schema = TRUE, !.bound = TRUE]]
    /\ state' = [state EXCEPT ![s] = DueNow(@, "activation")]
    /\ UNCHANGED <<source, log, outcome, store, queue, pc, run>>

\* activation.reject decides about a candidate and changes no route, but it too
\* gives a source its missing row.
Reject(s) ==
    /\ ~state[s].exists
    /\ state' = [state EXCEPT ![s] = DueNow(@, "activation")]
    /\ UNCHANGED <<source, profile, log, outcome, store, queue, pc, run>>

\* activation.retire: back to the legacy crawler; the due time stays.
Retire(s) ==
    /\ profile[s].gen < MaxGen
    /\ profile[s].schema
    /\ profile' = [profile EXCEPT ![s] = [@ EXCEPT !.gen = profile[s].gen + 1,
                                                  !.schema = FALSE, !.bound = FALSE]]
    /\ UNCHANGED <<source, state, log, outcome, store, queue, pc, run>>

\* runs.set_paused: scheduling only; it also gives a new source its row.
SetPaused(s, paused) ==
    /\ ~state[s].exists \/ state[s].paused # paused
    /\ state' = [state EXCEPT ![s] = [@ EXCEPT !.exists = TRUE, !.paused = paused]]
    /\ UNCHANGED <<source, profile, log, outcome, store, queue, pc, run>>

\* runs.request_now, also for an old message without a claim: due now, unless
\* the source is disabled, paused or running.
RequestNow(s) ==
    /\ source[s].active
    /\ ~state[s].paused
    /\ ~Live(s)
    /\ state' = [state EXCEPT ![s] = DueNow(@, "manual")]
    /\ UNCHANGED <<source, profile, log, outcome, store, queue, pc, run>>

Less(n) == IF n = 0 THEN 0 ELSE n - 1

\* One tick.  Celery lets no task run past its time limit.
Tick ==
    /\ \A w \in Workers : pc[w] # "idle" => run[w].ran < TimeLimit
    /\ state' = [s \in Sources |->
                    [state[s] EXCEPT !.due = Less(@), !.lease = Less(@)]]
    /\ run' = [w \in Workers |->
                  IF pc[w] = "idle" THEN run[w] ELSE [run[w] EXCEPT !.ran = @ + 1]]
    /\ UNCHANGED <<source, profile, log, outcome, store, queue, pc>>

Execute(w) ==
    \/ Route(w)
    \/ ReadSource(w)
    \/ \E kind \in Kinds : Commit(w, kind)
    \/ CommitRefused(w)
    \/ \E kind \in FailureKinds : Fails(w, kind)
    \/ Abandon(w)
    \/ MarkStale(w)
    \/ Crash(w)

Admin(s) ==
    \/ \E active, inputs \in BOOLEAN : EditSource(s, active, inputs)
    \/ \E granted \in BOOLEAN : SetPolicy(s, granted)
    \/ Activate(s)
    \/ Retire(s)
    \/ Reject(s)
    \/ \E paused \in BOOLEAN : SetPaused(s, paused)
    \/ RequestNow(s)
    \/ ManualClaim(s)

Next ==
    \/ \E s \in Sources : EnsureState(s) \/ DispatchDue(s) \/ Admin(s)
    \/ \E w \in Workers : Execute(w) \/ \E c \in queue : Start(w, c)
    \/ \E c \in queue : LoseMessage(c)
    \/ Tick

Spec == Init /\ [][Next]_vars

\* Beat dispatches every minute, a task that has started goes on or is killed,
\* and time passes.  Nothing says that a message arrives.
Fairness ==
    /\ WF_vars(Tick)
    /\ \A s \in Sources : WF_vars(DispatchDue(s))
    /\ \A w \in Workers : WF_vars(Execute(w))

FairSpec == Spec /\ Fairness

----------------------------------------------------------------------------
\* What the claims, the fence and the generation are for.

\* A source has at most one run that counts as running, and it is the one its
\* row names: no crawl_log row stays "running" behind a newer claim, whatever
\* order expired leases, late workers and repeated messages come in.
OneRunningLog ==
    \A i \in DOMAIN outcome :
        outcome[i] = "running" => state[log[i].source].claim = i

\* The runs that wrote articles of a source did so in the order of their
\* fences, each at most once: a late or repeated worker never writes after a
\* newer run has.
WritesInFenceOrder ==
    \A s \in Sources : \A a, b \in DOMAIN store[s] :
        a < b => log[store[s][a]].fence < log[store[s][b]].fence

\* An approved recipe is tried next: as long as no run under the present
\* activation has ended, the source stays due.  A run of the earlier route that
\* ends meanwhile does not put the recipe off to its own next due time.
Tried(s) ==
    \E i \in DOMAIN log : /\ log[i].source = s
                          /\ log[i].gen = profile[s].gen
                          /\ outcome[i] # "running"
ApprovedRecipeRunsNext ==
    \A s \in Sources :
        profile[s].schema /\ state[s].due > 0 => Tried(s)

\* A source that is parked for a day after a blocked run is flagged for an
\* administrator, and only a source that is failing carries a flag.
ParkedIsFlagged ==
    \A s \in Sources :
        /\ state[s].reason = "cooldown" => state[s].attention = "blocked"
        /\ state[s].attention # "none" => state[s].failures > 0

\* What a row of crawl_source_state says of its source's runs is so: the log
\* that runs is the one it names, and the flag an administrator sees is what
\* the runs so far have left.
RowsTell == OneRunningLog /\ ParkedIsFlagged

----------------------------------------------------------------------------
\* The inductive invariant behind these (proved in CrawlRunProofs).

\* A worker's copy of the claim agrees with the log row of the claim, and a run
\* is given up for a failure.
RunsKnowTheirClaim ==
    \A w \in Workers : pc[w] # "idle" =>
        /\ run[w].claim \in DOMAIN log
        /\ run[w].fence = log[run[w].claim].fence
        /\ run[w].gen = log[run[w].claim].gen
        /\ pc[w] = "abandoning" => run[w].kind # "ok"

\* The claim a row names is an open run of that source, under its present fence.
ClaimIsOpenRun ==
    \A s \in Sources : state[s].claim # NoClaim =>
        /\ state[s].claim \in DOMAIN log
        /\ log[state[s].claim].source = s
        /\ log[state[s].claim].fence = state[s].fence
        /\ outcome[state[s].claim] = "running"

\* Later runs of a source have higher fences, none above the row's own.
FencesGrow ==
    /\ \A i, j \in DOMAIN log :
          i < j /\ log[i].source = log[j].source => log[i].fence < log[j].fence
    /\ \A i \in DOMAIN log : log[i].fence <= state[log[i].source].fence

\* What a source holds was written by its own successful runs.
StoreIsOfSuccesses ==
    \A s \in Sources : \A a \in DOMAIN store[s] :
        /\ store[s][a] \in DOMAIN log
        /\ log[store[s][a]].source = s
        /\ outcome[store[s][a]] = "success"

RecipeHasRow == \A s \in Sources : profile[s].schema => state[s].exists

IInv ==
    /\ TypeOK
    /\ RunsKnowTheirClaim
    /\ ClaimIsOpenRun
    /\ OneRunningLog
    /\ FencesGrow
    /\ StoreIsOfSuccesses
    /\ WritesInFenceOrder
    /\ RecipeHasRow
    /\ ApprovedRecipeRunsNext

----------------------------------------------------------------------------
\* Runs keep to the abstract ledger of CrawlLedger: a row ends once, only the
\* newest run of a source under the present activation commits.
Ledger == INSTANCE CrawlLedger WITH
    fence <- [s \in Sources |-> state[s].fence],
    gen <- [s \in Sources |-> profile[s].gen]
LedgerSpec == Ledger!Spec

\* Every run that was opened ends, though its message, its worker or the whole
\* dispatcher round may be lost, unless an administrator holds the source back.
\* The last row of the bounded log is left out: no claim can follow it here.
Running(i) == i \in DOMAIN outcome /\ outcome[i] = "running"
RunsEnd ==
    \A s \in Sources : \A i \in 1 .. MaxClaims - 1 :
        (Running(i) /\ log[i].source = s)
            ~> (~Running(i) \/ state[s].paused \/ ~source[s].active)

\* "600/660 s are below the lease, so that a normal timeout comes before the
\* lease runs out": while the row still names a worker's claim and Celery lets
\* the worker run, its lease is good.
TimeoutBeforeLeaseExpiry ==
    \A w \in Workers :
        pc[w] # "idle" /\ state[SourceOf(w)].claim = run[w].claim
            => state[SourceOf(w)].lease > 0
=============================================================================
