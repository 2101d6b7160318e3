# FSourceInsight in TLA+

FSourceInsight crawls French technology news, has language models translate and
analyse the articles, and publishes the result. This directory models the parts
of it where several processes, administrators, lost messages and the clock meet:
who may write, who may pay, and what must happen in the end. TLC checks the
modules on small instances; TLAPS proves the invariants for every value of the
constants.

`PROJECT.json` lists the components, runs, mutants, hazards and theorems, and maps
every definition to the lines it models. Paths below are under `src/`.

## The system

A Flask web application, Celery workers and a beat scheduler share a MySQL
database (SQLite in tests). Redis carries Celery's messages, caches model
answers and holds the circuit breaker; no control state lives there.

| Component | Source | State it keeps | What must be right |
|---|---|---|---|
| Crawl runtime | `app/crawlers/runs.py`, `tasks.py` | `crawl_source_state` (due time, failure streak, attention, claim, lease, fence), `crawl_log` | one open run per source, late workers never write, every run ends |
| Commit paths | `app/crawlers/base.py`, `_ingestion.py` | `article`, in one transaction with the run's end | articles in fence order; upgrades reset the model results |
| Activation | `app/crawlers/activation.py` | active and previous recipe, generation, decisions | a run of an earlier decision never commits; an approved recipe runs next |
| Fetch policy, source edits | `web/views/crawl_policy.py`, `admin.py`, `_source_policy.py` | policy versions, source generation | no recipe runs on inputs nobody reviewed |
| Article jobs | `app/llm/article_jobs.py`, `article_tasks.py` | `article_llm_job` | one active job per article, pay once, never apply stale results, every job ends |
| Pipeline | `app/llm/pipeline.py` | results on `article` | read, pay without locks, compare, apply |
| Spend account | `app/llm/budget.py` | `llm_reservation`, one gate row | bills within the day's limit, holds kept until settled or reconciled |
| Model client | `app/llm/client.py`, `routing.py` | none (a request's own progress) | no paid fallback over failed accounting, at most three paid attempts |
| Circuit breaker | `app/llm/circuit_breaker.py` | three Redis keys per provider | opens after five failures, tries again after five minutes |
| Schedule rule | `app/crawlers/schedule.py` | none | frequency, daily anchor, backoff, time zones |
| Recipe learning | `app/crawlers/learning.py`, `learning_tasks.py`, `_learning_delivery.py` | sessions, attempts, retries | one session per source and one running, an ended session pays for nothing, every session ends |
| Learning history | `app/crawlers/_learning_history.py` | a ledger over sessions, rounds and retries | no legal history fails its own check |
| Holdout validation | `app/crawlers/validation.py` | frozen holdouts, results | a candidate passes only on what no model was shown by then, and is judged once |
| Company jobs | `app/llm/company_refresh.py`, `startup_analysis.py`, `app/crawlers/startup_discovery.py` | two job tables | one refresh at a time, pay by the claim alone, never overwrite newer company data |
| Company catalogue | `app/web/views/admin.py`, `app/ecosystem_review.py`, `pipeline.py` | `company`, `article_company` | one company per slug, links and names survive results, forms and merges that cross |
| Fetcher | `app/crawlers/fetcher.py`, `_fetch_*.py` | budgets and pace of a run, rules of origins | robots rules, distance, requests and time are kept over all redirects |
| Evidence store | `app/crawlers/_evidence.py`, `_capture.py` | private files | what has not expired can be loaded; the store never refuses its own cleanup |
| Engine, extraction, quality | `app/crawlers/engine.py`, `quality.py`, `contracts.py`, `_ingestion.py` | none | the outcome of a run is one its contract accepts |
| Legacy crawlers | `app/crawlers/base.py`, `sources/` | articles, jobs, log | all or nothing; an outage is no quiet source |
| Email digest | `app/email` | subscriptions, sent log | no story is missed while turns come a day apart, unless it was stamped before a turn and committed after it; mails leave logs |
| Web views, API, seeds | `app/web`, `app/api`, `scripts` | forms over the tables above | what changes state is with the component it changes; the rest reads |

How they interact. Beat sends `dispatch_due_crawls` every minute; it claims due
sources, a transaction each, and sends `crawl_source(source, claim)`. The worker
resolves the route (legacy crawler or approved recipe), fetches without a lock,
and writes articles, their jobs, the run log and the next due time in one
transaction that first proves the claim. After the commit each job is sent to
the `llm` queue; `process` claims it, runs the pipeline, whose every model call
goes through `LLMClient` and the spend account, and closes the job. Recovery
tasks run every minute. Administrators edit, pause, approve, retire, request,
reprocess and reconcile at any moment.

What is hard here: leases that expire under a live worker; messages that are
lost (any send) or repeated (`acks_late`); transactions that compare with what
was read minutes before; reads without locks under MySQL's REPEATABLE READ;
crashes between two transactions of one handler; midnight.

## Modules

| Module | Role |
|---|---|
| `CrawlRun` | the crawl runtime, with the commit paths, activation and source administration as far as they touch it |
| `CrawlLedger` | the abstract promise of `CrawlRun`: rows end once, only the newest run of a source under the present activation commits |
| `CrawlRunProofs` | invariant, types, fences, schedule, and that `CrawlRun` implements `CrawlLedger` |
| `ArticleJobs` | article jobs, their consumers, the crawl's upgrade, recovery, the script |
| `ArticleJobsProofs` | invariant, types, one active job, one payment, stale results, closed jobs |
| `LLMBudget` | the spend account and the attempts of a request |
| `LLMBudgetProofs` | invariant, types, decided rows, no call over a failed settlement, bills and open holds within the limit |
| `SetSums` | sums over finite sets: what they add up to does not depend on the order |
| `Learning` | learning sessions, their rounds, messages and calls |
| `LearningProofs` | invariant, types, fenced attempts, one session at work, one open call, nothing charged to ended sessions, a history that passes its check |
| `LearningHistory` | the check of the recorded history, as an invariant of `Learning` |
| `Activation` | one source's permissions, candidates, previews and decisions, and what `route` gives |
| `Holdout` | extends `Activation`: validation of learned candidates, next to learning that shows pages to models |
| `HoldoutProofs` | invariant, types, what is routed was approved, what is usable is untouched, decisions on what was shown, verdicts that stand, what passed was unseen, and shown to no model by then |
| `CompanyJobs` | refreshes and initial analyses of one company |
| `ProviderCalls` | LLM requests over ordered routes, and the circuit breaker they share in Redis |
| `Fetching` | the pages of one run: supervisor, helper process, redirects, robots rules |
| `Services` | `CompanyJobs`, `ProviderCalls`, `Fetching` and `ArticleJobs` together: what must come to an end |
| `ServicesProofs` | an invariant for each of these parts, types, sound results of companies, polite fetches, the order of routes |
| `CrawlSchedule` | when a source is due again, with clocks that are put back and forth |
| `NewsEngine` | the walk of a recipe over its pages, its sums, and the outcome's contract |
| `LegacyCrawl` | a run of each legacy crawler, to the articles it stores |
| `EvidenceStore` | the directory of evidence, with its lock, its limits and dying savers |
| `Catalogue` | companies, their names and links, under results, forms and crossing merges |
| `Digest` | the daily mails |
| `Content` | the last six together |
| `ContentProofs` | an invariant for each of these parts, types, and the property of each |
| `MC*` | instances and symmetry for TLC |

### CrawlRun

One action is one transaction or one unlocked read. `state` is the row of
`crawl_source_state`; the claim identity, a UUID in the code, is the index of the
run's row in `log`, as fresh as a UUID and the same in every place that compares
it. `outcome` is the column of that row which changes later. Times are the ticks
that remain (`lease = 0`: expired; `due = 0`: due). `schedule.next_due` is
represented by the sets of delays it can give for a kind of result. `profile`
holds what `activation.route` asks: the activation generation, whether a recipe
is active, whether it is bound to the present source (`active_source_generation`)
and whether the policy is effective. `source.rev` stands for
`(url, feed_url, updated_at)`.

A worker goes idle, routing, reading, fetching, and then commits, abandons or
marks its run stale: `runs.execute`, `activation.route`, the read in
`_ingestion.run`, the final transaction with `runs.lock` (`Holds`), `runs.abandon`
and `runs.mark_stale`. `Crash` may come at any of these. A disabled source makes
the recipe path raise before its transaction; nobody catches that, and the model
leaves the claim to its lease, as the code does.

`settle` also sets `last_crawled_at` and so `updated_at`. `rev` leaves that out: the
only run it could disturb is one with an older claim, which `Holds` refuses first.

### ArticleJobs

`article` has a content level (0 before it exists; a crawl only writes a higher
one, `_ingestion.py:38-42`), the processed flag, and the level its results were
made from. At the start it is missing, or was processed before jobs existed, so
that an administrator's request can fall into the first crawl's transaction. `jobs` are the rows in order of creation. The unique column
`active_article_id` is `HasActive`. A crawl's transaction is `IngestRead` and
`IngestWrite` (or `IngestAbort`): it reads the article without a lock, and
SQLAlchemy writes only the columns whose new value differs from the one read.
The model assumes MySQL's default isolation, under which that read is as of the
transaction's snapshot; SQLite would serialize the two steps.

A worker goes idle, reading, paying, applying, closing, requesting: the calls of
`article_tasks.process` and the steps of `process_article`. The script is a worker
without a job. `updated_at` counts whole seconds, so a forced run sees another
run's results or not (`Moved`); an unforced one stops at the processed flag.
Articles are never deleted while jobs are open, so `article_unavailable` does
not occur.

### LLMBudget

`rows` are the reservations in order of admission; `bill` is what the supplier
charges in the end for the call of a reservation, which the code does not see. All accounting
transactions take the gate row first, so each is one action. Tokens of both
directions are one number, the price of which is rounded up as `money` does. A
request takes the routes' terms once (`Begin`), reserves, calls and settles; it
goes on to another route after a failed answer whose account is in order, and
ends otherwise. The cache and the breaker only end or shorten a request, which
`GiveUp` and the free choice of routes allow at any point. That an operator
reconciles only when the call is over, and with the final bill, is the
operator's attestation (`docs/ops/llm-budget-accounting.md`); the worker may
still be about to settle.

### Learning

`session` is the row of `crawl_repair_session`, known by its capture, which is
unique; `attempt` is the state of each `crawl_repair_attempt`, known by capture and
number, as the table's constraint has it; `call` is the reservation of an attempt
on a model (`admit` allows one each). The delivery key is what its hash is taken
over: the rounds and retries so far. Every transaction of `learning.py` takes the
budget gate first (`budget.transaction`), so each is one action: `Start`, `Cancel`,
`Retry`, `Publish`, `Recover`, `ClaimRefused` / `ClaimStops` / `ClaimWins`, `Reserve`
(with `admit`), `Settle`, `Parse` (`parse_window`), the four `Finish` actions and
`Block`. A worker is in `pc` between them. Where the worker may miss the answer of
a commit, the action has a branch in which it goes on as if it had failed, with the
attempt's identity it chose before. `due`, `left` and `cooldown` are ticks that
remain; a session's deadline is never moved.

`LearningHistory` states the check that `_learning_history.inspect` makes before each
step: if a legal history failed it, nothing could repair the records. Hashes and
markers are written together with what they describe, and left out.

Left out: `inputs`, which rechecks evidence and policy, and damaged records are failures that may come at any step (`Fails`); money and token limits
are further reasons to refuse a reservation; `unknown` and `overrun` calls are one
state here, for both stay open and end the attempt; attempts that are `blocked` or
`discarded` are `fenced`. Rows without a dispatch time come only from before that
column existed. The limit of 50 rows of a recovery and the loop of three rounds in
`learn` never bind: a session has at most three rounds. What a candidate's
validation does next belongs to `Holdout`.

### Activation and Holdout

`profile` is the row that `activation.route` asks, with its generations; `decisions`
the log; `captures` the saved reports, of which the newest `KeepReports` of a
version are `kept` and those of the last day are `fresh`; `preview` the one that is
under way, with what it read before it fetched; `form` and `request` what a page
showed. Posts end in one transaction that holds the source's row, and are one
action. `approve` has two steps: under REPEATABLE READ what it reads without a lock
is as of its first read, which is before it waits for the row. Hashes and
fingerprints are compared as values.

`Holdout` adds the validations: frozen when learning finishes (`Freeze`), selected,
evaluated without a lock and finished (`Select`, `Finish`), expired by recovery
(`Late`, `Expire`). `exposed` is what sessions of learning show to models at any time;
documents are pairs of an address and a text, so that a document seen under
another address is known by its text. Scores are a choice.

### CompanyJobs

`company` holds two values, facts and analysis, and a generation that a flush of
either advances (`Flushed`); `job` is the row of each refresh and of the one initial
analysis, `mail` the messages, `owner` each delivery that claimed a job. A delivery
reads the homepage, fixes its prompt, asks for admission, calls and saves; each is
a transaction of its own, and edits, deletions, scans, repeated messages and deaths
come between any two. `Admits` is asked in the name of the job, as in the code: the
prompt tells that it is still the delivery that was claimed.

### ProviderCalls

Every Redis command of `circuit_breaker.py` is a step, with the keys' lifetimes; the
callers' places within `record_failure` and `record_success` are in `caller`.
`Ordered` is the order of `routing.py`: `InOrder` gives a route the place after those
before it, which is what sorting by a key that ends in the unique id comes to. Prices and admission are in `LLMBudget`.

### Fetching

`walk` is the stack of what is being fetched: a page and, on top of it while its
origin is new, the rules of that origin. `spent`, `pace` and `robots` are the helper's
budgets, the time since the last request to a host with the longest delay asked
for, and the rules it has read. Servers answer anything. `Expire` is the alarm and
the supervisor's deadline; a helper that broke is not started again, for its
successor would count from zero. Addresses, TLS and decompression are left out.

### CrawlSchedule

Time is UTC in slots, and `Wall` what a clock on the wall shows, which is put back
or forth by a slot once. `Utc`, `AnchorAfter` and `NextDue` are `_utc`, `anchor_after` and
`next_due`; runs begin within `MaxRun` and end with any category and hint. `Doublings`
are the powers of two of the backoff, which the code caps at the sixteenth. The
hour that is left out or repeated begins on the hour, as the anchor does, and lasts
a slot at most (`ScheduleConstants`): an anchor in the middle of a gap would be put off. The
property says when the anchor comes without `Utc`: when the wall shows the hour, or
more, for the first time on that day.

### NewsEngine

`at` is where the walk stands, `sums` the counters, `errors` the classes of codes as far
as status and contract tell them apart. Documents are what the readers
make of them: cards, links and mishaps, chosen freely. `Ingest` is the transaction
of `_ingestion.py` with the status rules of `quality.py`; `OutcomeAccepted` is the
contract of `contracts.py`.

### LegacyCrawl

A crawler is a record of how its code goes through pages and links: how many
pages, whether a page that fails is left out (`guarded`), when a link is noted as
seen (`marks`), whether links come with their page or as they are read, whether a
broken element is skipped. `Strike` is the soft time limit, an exception that falls
anywhere and is swallowed where the code swallows exceptions: such a run goes on,
up to the hard limit. Claims and logs are `CrawlRun`'s; here the claim is held or
lost. The home page of CEA-Leti is taken whatever its status, and Tribune AURA
notes a link before its title: `upset` marks runs that something was left out of,
and only those may overlook a link. Identities of a feed that differ in case only
are one article under the collation in `docker-compose.yml` (`CaseOf`).

### EvidenceStore

`saver` is where each `save` stands: dated, locked, open. The directory's lock is
tried without waiting, and goes with its process; a file half written stays until
it expires. Readers take no lock.

### Catalogue

`row` are the companies by id, `links` the rows of `article_company`, known by their
article, the company they were made for and the reading that made them; `merge` what
each merge under way has read, `form` what an administrator was shown. Results (`Apply`)
resolve names by slug, then alias, and create the rest; in a race for a slug or with a
deletion the transaction fails and leaves nothing. Only `Apply` makes links, so that
all are the model's and a forced run removes all of the article.

A merge takes no lock: `MergeReads` reads two companies and their links, and
`MergeCommits` writes, any number of other steps later, the links it found, the list
of aliases if it grew, and the deletion. `MergeStands` is what the database asks of
that (a row it updates is there, an article has one link to a company, no link leads to
a company that is deleted); a list that did not grow and links that do not move
update nothing, and such a merge commits although its target is gone. Merges cross
each other, forms and results. Two properties have exceptions for what this code does
lose:

- `MergedNamesFound` follows the names that merges gave to a company (`absorbed`),
  those the source got after it was read included. What someone writes to the names of
  either company between a merge's read and its commit is lost: another merge into the
  same target, whose aliases the later commit overwrites, or a form. `crossed` tells
  that a merge was overtaken in this way.
- `LinksFollow` leaves out the articles of which two merges of one company took the
  link from each other (`torn`).

A form that is sent late writes back the names it showed, as the code does;
`absorbed` forgets those that someone took out. Facts (website, mentions,
sentiment) and the review of a company are left out, and what only changes them.

### Digest

A story has an `age` from the flush of its row, where `crawled_at` gets its default
(`models/article.py:36`), and is `visible` from the commit; the crawl may also roll
back. The database keeps whole seconds of the stamp while the window's begin has
microseconds, so that a stamp is up to a tick off (`Flush`, -1 to 1).
`run` is the task at work: its stage, who is still to come, and what its transaction
sees (`sees`), which begins anew after the log of a mail. A user who was deleted
since is still read from that view, and the log of his mail fails. A turn measures its
day when it comes; `since` keeps the time since a user's last digest turn, and
`excused` those whose digests had a reason to miss a story. `passed` are the
stories that were stamped before a user's turn and could not be seen in it: a later turn
within a day may still find them, and one a day later need not. `MailsComplete` says
that nothing else is missed. `Send` may come at any moment, for the
queue and the clocks decide. One run is under way at a time.

### Services and Content

The parts of either share no state, so that each behaviour moves one of them and
the others rest in an initial state: a product of their behaviours would ask
nothing more, and could not be searched. `moving` names the part.

## Runs

| Run | Asks | Bounds |
|---|---|---|
| `crawl_safety` | `TypeOK`, `RowsTell`, `WritesInFenceOrder`, `ApprovedRecipeRunsNext`, and that `CrawlRun` implements `CrawlLedger` (`LedgerSpec`) | 1 source, 2 workers, 2 claims, 1 edit, 1 activation, lease of 2 ticks, time limit 1: a lease can expire under a worker, a second claim take over, and an edit or an activation fall between any two steps |
| `crawl_liveness` | `RunsEnd` | 1 source, 1 worker, 2 claims, 2 activations |
| `crawl_timeout` | `TimeoutBeforeLeaseExpiry` (violated) | 1 source, 1 worker, lease 3, limit 2 |
| `jobs_safety` | `TypeOK`, `OneJobOnePayment`, `NeverAppliesStale` | 1 article, 2 levels (created and upgraded), 2 workers or scripts, 2 jobs |
| `jobs_lost` | `NewContentHasJob` (violated) | 1 article, 1 worker, 2 jobs |
| `jobs_stale` | `ResultsAreCurrent` (violated) | as above |
| `budget_safety` | `TypeOK`, `BilledWithinLimit`, `OpenHoldsCovered`, `SettledBeforeNext`, `DecidedForGood` | 2 workers, 2 routes, 3 reservations, 2 days; a limit that admits a second call only after the first was settled below its hold; suppliers that bill below, and above, the ceiling |
| `learning_rounds` | `TypeOK`, `FencedAttempts`, `CandidateIsAccounted`, `HistoryTracked`, `EndedAdmitsNothing`, `PaidStaysEnded`, `SessionsEnd` | 1 session, 2 rounds, 2 workers, 2 models, a deadline after 1 tick, a delivery a tick: a worker can lag by a round or a retry |
| `learning_sources` | `OneByOne` | 2 sources, 2 sessions, 2 workers, 1 round, 1 model; no cooldown, so that a session can be retried while a younger one of its source is at work |
| `activation` | `HoldoutTypeOK`, `RoutedWasApprovedHere`, `UsableIsUntouched`, `PassedIsUnseen`, `DecidedOnWhatWasShown`, `VerdictStands`, `ValidationsEnd` | 1 hand-written and 1 learned version, 2 addresses of the source (there and back), 2 captures out of 3 kinds (nothing in common, an address in common, or the same again), 5 acts; with one learned version the part of `PassedIsUnseen` about earlier candidates has no case here and rests on the theorem `PassedUnseen` |
| `services` | `ServicesTypeOK`, `CompanyResultsSound`, `FetchesPolitely`, `ServicesEnd` | jobs: 2 rows, 2 deliveries, 2 routes, 1 edit; breaker: 2 callers over 2 routes of one provider, 2 failures open it; fetcher: 3 origins on 2 hosts, 3 requests, 1 redirect; article jobs: 1 worker, 2 jobs |
| `content` | `ContentTypeOK`, `EvidenceHolds`, `OutcomesAccepted`, `LegacyRunsSound`, `CatalogueKeeps`, `MailsComplete`, `DueByTheRule` | store: 2 savers, 3 saves, room for 2 files; engine: 1 list or 2, or 1 of 2 pages, of 2 cards; schedule: days of 12 slots, a shift either way around the anchor, 2 days; crawlers: all kinds, 3 links, 2 runs; catalogue: 4 names of 3 slugs, 3 companies, 1 article, 2 results, 2 acts, 2 merges under way, which are alike (symmetry): two companies can be merged into a third at once, or a merge cross a form, a deletion or new results; mails: 2 users, 1 story, 1 message, 1 upset, a day of 2 ticks |

What the properties that gather several parts say: `RowsTell` is that a source has
one open run at most and is parked only with its attention flag; `OneJobOnePayment`
that an article has one active job at most and no job is paid for twice;
`OneByOne` that a source has one session at work, and the account one open call of
learning; `VerdictStands` also that a candidate which passes shares no document with
what models were shown by then, where `PassedIsUnseen` keeps it apart from its own
training and from earlier selections for good. `CompanyResultsSound`, `FetchesPolitely`, `ServicesEnd`, `LegacyRunsSound`,
`CatalogueKeeps` and `MailsComplete` are conjunctions with a named part for each promise,
at the end of their modules.

In the crawl and the article jobs, sources and articles do not interact in what is modelled: every action concerns
one of them and no property relates two, so one is enough; workers do, and there
are two. Learning sessions do interact, through `claim`, and `learning_sources` has
two. Runs with workers use their symmetry, but only without liveness. The
bounds `MaxClaims`, `MaxEdits`, `MaxGen`, `MaxJobs`, `MaxCalls` and `MaxDays` cap
tables and counters that grow for ever in the code; each is large enough for the
second of whatever takes over from the first. The same holds of `MaxWork`,
`MaxCaptures`, `MaxRefreshes`, `MaxEdits`, `MaxSaves`, `MaxTries`, `MaxReadings`, `MaxActs`,
`MaxUpsets` and `MaxSends`, of the walks' `MaxWalk` and `MaxLinks`, and of `Horizon`, where the
schedule's time ends. Deadlock is checked but in `activation`, `services` and
`content`, where runs come to their end and the bounds leave nothing to do.

Each property has a mutant of the code that violates it (a dropped comparison, a
missing reset, a recovery that forgets running jobs), listed in `PROJECT.json`; those of
the type invariants are slips of the same kind (a log takes the category of an error for
the outcome, a job's state and reason change places, a cooldown is added to what is left
of an older one, a budget allows one request more) and never a clock of the model that
misses zero, for the code keeps absolute times.

### Fairness

`CrawlRun` assumes that time passes, that beat dispatches a due source in the
end, and that a worker which has started goes on or is killed. It does not
assume that a message arrives. `RunsEnd` rests on the lease alone; it excepts
paused and disabled sources, which nobody dispatches, and the last row of the
bounded log. `ArticleJobs` assumes that time passes and that recovery runs, and
nothing of the workers: `JobsEnd` holds although every worker may be dead. `Learning`
assumes the same two, and `SessionsEnd` rests on the deadline alone. `JobsEnd` is a part of
`ServicesEnd`, with three others: `CompanyJobsEnd` under the same two assumptions;
`ProvidersTriedAgain`, where a request that has begun goes on, because its call has
a timeout, and time passes; `FetchesEnd`, where time passes and alarms go off. For
`ValidationsEnd` the clock does not stop and recovery runs. A part that rests in
`Services` has no fair action that could change it.

### What disagrees with the documents

- `crawl_timeout`. `docs/ops/crawl-runtime.md:33` has the 600/660 s limits below the lease, so
  that a timeout comes first. The lease runs from the claim, the limit from the
  start of the task; a message that waits in the queue uses up the margin. The
  fence still refuses the late commit (`WritesInFenceOrder`), so the run is only
  wasted.
- `jobs_lost`. `docs/ops/crawl-runtime.md:76-81` promises a job for every upgraded article.
  An upgrade that commits between the results of the old content and the end of
  their job finds the job still active, and makes none.
- `jobs_stale`. An upgrade that read the article before results were applied, and
  commits after, does not write the reset it believes redundant: new content with
  the old content's results, counted as processed.

Met on the way, with no run that is violated:

- `docs/superpowers/specs/2026-09-25-m2-activation-routing-design.md` (4.2) says that a
  rejected candidate can no longer be approved. `approve` reads the decisions
  without a lock, and its snapshot is older than its row locks: under REPEATABLE
  READ a rejection that is saved while the approval waits is not seen. The model takes
  both steps, and no property excludes the case.
- The header of `circuit_breaker.py` has a single test request after the recovery
  time; every caller is let through. A failure between the steps of another
  worker's success can leave an open circuit without its time: the provider is
  then blocked until its keys expire (an hour), where the header has five
  minutes. `ProvidersTriedAgain` asks for the end of it only.
- `docs/superpowers/specs/2026-09-24-m34c-release.md:12` has merge aliases persist. Of two
  merges into one company that overlap, the later commit overwrites the aliases of
  the earlier (`admin.py:441-448`); the same befalls names that a form gives to
  either company meanwhile. The next article that uses such a name makes the
  company anew. `MergedNamesFound` excepts it.
- The digest is daily and looks back 24 hours from each turn. A story that was flushed
  before a turn and committed after it has then lost some of its day, and a turn
  exactly a day later misses it. `NothingMissed` excepts it.
- An outage of a section site is recorded as `empty_extraction`, for its crawler
  leaves out each page that fails, and is not retried as an outage would be.
- A job closed as `input_changed` asks for its follow-up in a second transaction; a
  crash between them leaves the article to an administrator.

## Proofs

All proofs are for any sets of sources, workers, articles, versions, captures and so
on, and any bounds, under the named assumptions of the modules: numbers are naturals, a lease, a
day, a lifetime and the like are positive, the marks for no worker, no route and nobody are
none. What else they ask is so in the code: the rows of a table and the values of a
header are finitely many (`Routes`, `Names`, `Delays`), ids of routes are unique, and
what `ScheduleConstants` says of clocks. TLC evaluates them all in the runs.

`CrawlRunProofs`. `IInv` says, beyond the properties: a worker's copy of its claim
agrees with the log row (`RunsKnowTheirClaim`); the claim a row names is an open
run of that source under its present fence (`ClaimIsOpenRun`); later rows of a
source have higher fences (`FencesGrow`); what a source holds was written by its
own successful runs (`StoreIsOfSuccesses`). None of the properties is inductive
alone: that a commit is of the newest run needs `ClaimIsOpenRun` and `FencesGrow`
together, and that it is not a second commit of one run needs `StoreIsOfSuccesses`
with the outcome that is still running. From it: `TypeCorrect`, `OneRunning`,
`FencedWrites`, `ApprovedRunsNext`, `Parked`, `RowsTellTrue`, and `Refinement`, whose step lemma
maps every action to a step of the ledger or a stutter.

`ArticleJobsProofs`. `IInv` adds that a worker holds the job whose row names it as
owner, and has not paid for it before the calls (`RunsOwnTheirJobs`), and that an
unclaimed job is unpaid (`UnclaimedUnpaid`). The proof goes through `Grows`: every
step keeps the rows of the table, their article and their owner once set, and the
state of a closed one. From it: `TypeCorrect`, `OneActive`, `NeverPaidTwice`,
`OneJob`, `ClosedForGood` (which no run repeats), `NeverStale`.

`LLMBudgetProofs`. `IInv` adds that a worker's permit is a row and that tokens come
with usage (`PermitsAreRows`); without the latter a request could take an overrun
for an answer without usage and go on. From it: `TypeCorrect`,
`NoCallOverFailure`, `Decided`. `AccountInv` is about the money. `Covered` says it of every
table: if the suppliers keep their terms for the calls of a day, the charges of that
day are within the limit, and so are all charges that count today, of whatever day.
It is inductive only together with what a bill can be: a call has one worker
(`OnePayer`), nothing is billed before the answer and the worker that settles knows
the bill (`PayersKnow`), and a row that is closed holds its bill (`RowsTell`), so that a
settlement replaces a charge by one that is no higher. From it: `WithinLimit` and
`HoldsCovered`.

`SetSums`. A sum over a table is the community modules' fold, a recursive function on
sets that takes an element by CHOOSE. Its laws (an element can be taken out, a sum
grows with its terms and with its set, a sum splits) need induction over finite sets. An
induction theorem with an operator parameter cannot be used here, but one with a set
can: `SubsetInduction` speaks of a set `G` of subsets, and follows from the cardinality of a
least counterexample.

`LearningProofs`. `IInv` adds that a worker at an attempt is alone there
(`OneWorkerPerAttempt`), has a number no higher than the session's rounds and a
settled call once it tries a recipe (`WorkersKnow`), and that while the attempt of
the running session has its worker, no other call is open (`OpenCallIsMine`);
`NothingBeforeStart` and `NotPaidBeforeStart` say that sessions begin empty.
`OneOpenCall` needs them all: a worker is admitted only at the current attempt, where
it is alone, and before its admission nothing is open, because `claim` found nothing
open and nobody else was current since. Every step is first sorted by what it does
to the sessions (`SessionStep`) and to the workers and calls (`WorkerStep`). From
it: `TypeCorrect`, `Fenced`, `OneAtWork`, `OneOpen`, `OneAfterTheOther`, `CandidateAccounted`,
`AdmitsNothingAfterEnd`, `PaidStays`. `HistoryPasses` needs `HistoryKept` beside it: the
attempts recorded are those of the rounds, and the rounds that were tried again are as
many as the retries.

`HoldoutProofs`. `IInv` dates what was kept by the generations: a capture or a preview
of the present generation of the profile is of the present generation of the source
(`GenerationsTell`), since every edit of the source advances both. `UsableUntouched`
follows, and with `DecisionsTell` (the active version was approved in the
generation it is activated for, and a rollback only goes back to such a one) also
`RoutedApproved`. `PagesTell` says that a page that shows the present activation
generation shows the present pointers, from which `DecidedAsShown`. For `PassedUnseen`,
`HoldoutsTell` and `SelectionsTell` number the selections in their order: what was
trained on or selected before is among what the verdict looks at, and nothing that is
selected later gets a lower number. `VerdictOnce` follows from the steps: the last transaction
looks once more at all that was shown. `TypeCorrect`.

`ServicesProofs`. `CompanyInv` adds to the types that a delivery at work has claimed its
row and holds it or finds it closed (`WorksOnItsClaim`), that a running job has read
what the company holds unless its generation has moved on (`ReadUnlessMoved`), and
that there are no jobs before the company. Every step is first shown to be one that
`GoesOn`: the rows keep their claims and the generation grows. From it `CompanyResults`.
`FetchInv` adds that the pace of a host is no faster than any rules read from its
origins (`PaceKnowsTheRules`) and that the helper counts every request; from it
`FetchesPolite`. `CallInv` says that a worker at work is at one of the routes and counts
no further than the thresholds. For this the order of the routes must exist:
`RoutesInOrder`, by counting, for the number of routes before one is an injection into
as many places as there are routes. The articles' invariant is that of
`ArticleJobsProofs`, instantiated. All four give `ServicesTyped`.

`ContentProofs`, one invariant for each part:

- The schedule needs its types only; `DueByRule` is arithmetic. An hour that the wall
  shows, or has passed, for the first time at an instant is the hour of that instant
  in UTC (`UtcOfTheFirst`), UTC rises with the wall (`UtcRises`), and so the first of three
  days' anchors that is later is never later than one that comes (`NoneBefore`).
- `EvidenceInv`: who creates or writes holds the lock, a file that is written is there,
  and the file of a reference lasts as long as the reference. `EvidenceKept`.
- `EngineInv`: the counters add up, and cards that are missing from them left an error
  (`CountersAddUp`); an outcome comes last. `OutcomesHold`.
- `LegacyInv`: the claim is held until something is recorded, and results only once
  (`ClaimUntilVerdict`); a crawler that stops at a page that fails had an answer from all
  before (`AnsweredSoFar`); what pages had is gathered, still to come, or the run is
  marked upset (`NothingLost`). `LegacySound`.
- `DigestInv`: a story that a user has not had is no older than his last turn unless that
  passed it (`YoungerThanTheTurn`); what is visible has a stamp, and a run sees nothing
  that is not committed (`SeenIsStamped`); of mails without a log one may be under way, that
  of a user who is gone and whom the run still sees (`LogsAccounted`). `MailsKept`.
- `CatalogueInv`: the names a merge gave are aliases of the company it gave them to
  (`AbsorbedAreAliases`); what a merge under way has read still holds or it is known to be
  crossed, and an article of which it drops a link has the target's, or is torn
  (`MergeKnows`); so its commit, long after its reads and whatever other merges did, takes
  no link from an article alone and no name that it could have read. `CatalogueKept`.

`ContentTyped` puts the six together.

Only model-checked: liveness (`RunsEnd`, `SessionsEnd`, `ValidationsEnd`, `ServicesEnd`),
since it rests on fairness and ENABLED. Every other property of the passing runs is a
theorem.

## Plan

Done: every module above, and proofs of every property but the liveness. Next:

1. Abstract specifications of `LLMBudget` (an account that never promises more than its
   limit) and of `ArticleJobs` (a job is paid once and closed once), with the detailed
   ones shown to implement them, as `CrawlRun` does `CrawlLedger`.
2. The invariants that liveness rests on, as theorems: a running job, session or
   validation always has its deadline ahead of it or can be recovered.
3. Dispatch among several sources, four a minute in order of due time.

## Not modelled

Parsing of pages and feeds, extraction of fields, prompts and answers, the discovery
of companies on directory pages, addresses and TLS, the layout of pages and mails:
data or I/O, without a protocol between actors. Seeds, reports and monitoring: they
keep no state of their own. Deletion of articles. Clocks of several hosts that
differ. Backlogs of many due sources (the dispatcher takes four a minute, in order
of due time). Two runs of the mails at a time.
