---------------------------- MODULE LegacyCrawl ----------------------------
(***************************************************************************)
(* A run of a legacy crawler (base.py, sources/).  Each crawler reads its  *)
(* pages in its own way: most leave out a page that fails, and with it     *)
(* the soft time limit that struck there; others fail with their page.     *)
(* What was gathered is checked as a whole and stored in one transaction   *)
(* under the claim, with a job for each new article.  Filters, titles and  *)
(* texts of links are left out, but for a link without a usable title.     *)
(* Claims, leases and logs of runs are the subject of CrawlRun: here the   *)
(* claim is held or it is lost.                                            *)
(***************************************************************************)
EXTENDS Integers, FiniteSets

CONSTANTS
    Identities, CaseOf,  \* external_id, and what the database compares of it
    Links,               \* what a page can hold: identity, kind
    MaxLinks, MaxTries   \* bounds on the links of a run and on runs

\* A fine link gives an article; one without a title none; an invalid one an
\* article that _validated refuses; parsing a broken one raises.
LinkKinds == {"fine", "untitled", "invalid", "broken"}

ASSUME LegacyAssumption ==
    /\ \A l \in Links : l.id \in Identities /\ l.kind \in LinkKinds
    /\ MaxLinks \in Nat /\ MaxTries \in Nat \ {0}

VARIABLES
    crawler,  \* the crawler of the source
    stage,    \* where the run is
    page,     \* pages asked for so far
    left,     \* links of the open page not looked at yet
    batch,    \* links taken from it, where they are handed over with the page
    noted,     \* identities noted by the crawler
    gathered, \* links returned by fetch_articles
    soft,     \* whether the soft time limit has struck
    held,     \* whether the claim is still this run's
    verdict,  \* status in the log of the run
    stored,   \* articles of the source
    own,      \* those this run stored
    jobs,     \* jobs asked for, by article
    published, \* jobs of this run given to the queue
    answered, \* history: a page of this run came
    shown,    \* history: links of those pages
    upset,    \* history: something in the run made it drop links
    tries     \* runs so far

legacyVars == <<crawler, stage, page, left, batch, noted, gathered, soft, held, verdict,
                stored, own, jobs, published, answered, shown, upset, tries>>

(***************************************************************************)
(* The crawlers.                                                           *)
(***************************************************************************)
\* Sections of a site: a page that fails is left out; a link is noted when it
\* is taken.
Sections(n) == [pages |-> n, guarded |-> TRUE, marks |-> "late", atOnce |-> FALSE, details |-> FALSE,
                skips |-> FALSE, provesEmpty |-> FALSE]
\* One page: the run fails with it.
OnePage == [Sections(1) EXCEPT !.guarded = FALSE]

BrefEco == Sections(4)
InriaGrenoble == Sections(2)
LeDauphine == Sections(2)
Linksium == Sections(2)
ResearchLab == {Sections(n) : n \in {2, 3}}
UsineDigitale == Sections(4)
UsineNouvelle == Sections(3)
STMicro == Sections(3)
ESRF == Sections(3)
FrenchTechAlps == Sections(2)
PlaceGrenet == Sections(2)
\* The links of a page come with the page, but are noted one by one.  Its last
\* page is the home page, whose status it does not look at.
CeaLeti == [Sections(5) EXCEPT !.atOnce = TRUE, !.details = TRUE]
Soitec == OnePage
MondeInformatique == OnePage
\* A link is noted before its title is looked at.
TribuneAURA == [OnePage EXCEPT !.marks = "early"]
\* Nothing is noted, and an element or entry that cannot be parsed is skipped.
HTMLCrawler == [OnePage EXCEPT !.marks = "never", !.skips = TRUE]
\* A feed without entries is known to be one.
RSSCrawler == [HTMLCrawler EXCEPT !.provesEmpty = TRUE]

Crawlers == {BrefEco, InriaGrenoble, LeDauphine, Linksium, UsineDigitale, UsineNouvelle, STMicro, ESRF,
             FrenchTechAlps, PlaceGrenet, CeaLeti, Soitec, MondeInformatique, TribuneAURA,
             HTMLCrawler, RSSCrawler} \cup ResearchLab

LegacyInit ==
    /\ crawler \in Crawlers
    /\ stage = "pages" /\ page = 0 /\ left = {} /\ batch = {} /\ noted = {} /\ gathered = {}
    /\ soft = FALSE /\ held = TRUE /\ verdict = "running"
    /\ stored = {} /\ own = {} /\ published = {} /\ jobs = [i \in Identities |-> 0]
    /\ answered = FALSE /\ shown = {} /\ upset = FALSE /\ tries = 1

Over == stage \in {"ended", "dead"}

\* The next claim of the source, by the same crawler.
NextRun ==
    /\ Over /\ tries < MaxTries /\ tries' = tries + 1
    /\ stage' = "pages" /\ page' = 0 /\ left' = {} /\ batch' = {} /\ noted' = {} /\ gathered' = {}
    /\ soft' = FALSE /\ held' = TRUE /\ verdict' = "running" /\ own' = {} /\ published' = {}
    /\ answered' = FALSE /\ shown' = {} /\ upset' = FALSE
    /\ UNCHANGED <<crawler, stored, jobs>>

\* The lease runs out, or an activation comes between.
LoseClaim ==
    /\ ~Over /\ held /\ held' = FALSE
    /\ UNCHANGED <<crawler, stage, page, left, batch, noted, gathered, soft, verdict,
                   stored, own, jobs, published, answered, shown, upset, tries>>

(***************************************************************************)
(* Reading.                                                                *)
(***************************************************************************)
outcomeVars == <<crawler, held, verdict, stored, own, jobs, published, tries>>

PageOpens ==
    /\ stage = "pages" /\ page < crawler.pages /\ page' = page + 1
    /\ \E found \in SUBSET Links :
          /\ Cardinality(found) + Cardinality(shown) <= MaxLinks
          /\ left' = found /\ shown' = shown \cup found
    /\ answered' = TRUE /\ batch' = {} /\ stage' = "page"
    /\ UNCHANGED <<noted, gathered, soft, upset, outcomeVars>>

\* No answer, or one that is no page, or a feed that is empty and not well formed.
PageRefused ==
    /\ stage = "pages" /\ page < crawler.pages /\ page' = page + 1
    /\ stage' = IF crawler.guarded THEN "pages" ELSE "failing"
    /\ UNCHANGED <<left, batch, noted, gathered, soft, answered, shown, upset, outcomeVars>>

\* Mutant of Noted: every link that has the form of an article's is noted.
NotedEarly(l) == TRUE
Noted(l) == crawler.marks = "early" \/ (crawler.marks = "late" /\ l.kind # "untitled")

TakeLink(l) ==
    /\ stage = "page" /\ l \in left /\ l.kind # "broken" /\ left' = left \ {l}
    /\ LET new == l.id \notin noted
           taken == IF new /\ l.kind # "untitled" THEN {l} ELSE {}
       IN  /\ noted' = IF new /\ Noted(l) /\ crawler.marks # "never" THEN noted \cup {l.id} ELSE noted
           /\ batch' = IF crawler.atOnce THEN batch \cup taken ELSE {}
           /\ gathered' = IF crawler.atOnce THEN gathered ELSE gathered \cup taken
           /\ upset' = (upset \/ (l.kind = "untitled" /\ crawler.marks = "early"))
    /\ UNCHANGED <<stage, page, soft, answered, shown, outcomeVars>>

\* What is left of a page when something fails in it: links taken before stay,
\* those that were to come with the page are gone.
LeavePage ==
    /\ upset' = TRUE /\ left' = {} /\ batch' = {}
    /\ stage' = IF crawler.guarded THEN "pages" ELSE "failing"

SkipLink(l) ==
    /\ crawler.skips /\ left' = left \ {l} /\ upset' = TRUE
    /\ UNCHANGED <<stage, batch>>

BrokenLink(l) ==
    /\ stage = "page" /\ l \in left /\ l.kind = "broken"
    /\ SkipLink(l) \/ (~crawler.skips /\ LeavePage)
    /\ UNCHANGED <<page, noted, gathered, soft, answered, shown, outcomeVars>>

PageDone ==
    /\ stage = "page" /\ left = {} /\ stage' = "pages"
    /\ gathered' = gathered \cup batch /\ batch' = {}
    /\ UNCHANGED <<page, left, noted, soft, answered, shown, upset, outcomeVars>>

\* Texts of articles: what fails here leaves an article without one.
ReadDetails ==
    /\ stage = "details" /\ stage' = "writing"
    /\ UNCHANGED <<page, left, batch, noted, gathered, soft, answered, shown, upset, outcomeVars>>

\* A feed that was parsed and has no entries.
ProvenEmpty == crawler.provesEmpty /\ shown = {}

\* One entry that is not valid fails them all.
Accepted == (gathered # {} \/ ProvenEmpty) /\ \A l \in gathered : l.kind = "fine"

PagesDone ==
    /\ stage = "pages" /\ page = crawler.pages
    /\ stage' = IF crawler.details THEN "details" ELSE "writing"
    /\ UNCHANGED <<page, left, batch, noted, gathered, soft, answered, shown, upset, outcomeVars>>

(***************************************************************************)
(* Writing.                                                                *)
(***************************************************************************)
readingVars == <<crawler, page, left, batch, noted, gathered, answered, shown, upset, tries>>

SameToDatabase(i, j) == CaseOf[i] = CaseOf[j]
Known(i, articles) == \E j \in articles : SameToDatabase(i, j)

\* Mutant of Inserts: it does not look for articles that are there.
InsertsAll == {{l.id : l \in gathered}}
\* New identities: of those that are one to the database, the first is
\* inserted, and the others are found to be there.
Inserts == {chosen \in SUBSET {l.id : l \in gathered} :
    /\ \A i \in chosen : ~Known(i, stored)
    /\ \A i, j \in chosen : SameToDatabase(i, j) => i = j
    /\ \A l \in gathered : Known(l.id, stored \cup chosen)}

\* The transaction: articles, jobs, log and claim.
Store ==
    /\ stage = "writing" /\ Accepted /\ held
    /\ \E new \in Inserts :
          /\ own' = new /\ stored' = stored \cup new
          /\ jobs' = [i \in Identities |-> IF i \in new THEN jobs[i] + 1 ELSE jobs[i]]
          /\ verdict' = IF new = {} THEN "no_change" ELSE "success"
    /\ held' = FALSE /\ stage' = "publishing"
    /\ UNCHANGED <<readingVars, soft, published>>

NotAccepted ==
    /\ stage = "writing" /\ ~Accepted /\ stage' = "failing"
    /\ UNCHANGED <<readingVars, soft, held, verdict, stored, own, jobs, published>>

\* The lock of the transaction, or of the record of a failure, finds the claim
\* lost: the log is ended if it still runs.
FindsClaimLost ==
    /\ (stage = "writing" /\ Accepted) \/ stage = "failing"
    /\ ~held /\ stage' = "ended"
    /\ verdict' = IF verdict = "running" THEN "stale" ELSE verdict
    /\ UNCHANGED <<readingVars, soft, held, stored, own, jobs, published>>

\* runs.abandon.
RecordFailure ==
    /\ stage = "failing" /\ held
    /\ held' = FALSE /\ verdict' = "failed" /\ stage' = "ended"
    /\ UNCHANGED <<readingVars, soft, stored, own, jobs, published>>

\* A message that cannot be sent is left to the recovery of jobs.
PublishJobs ==
    /\ stage = "publishing" /\ stage' = "ended"
    /\ \E given \in SUBSET own : published' = given
    /\ UNCHANGED <<readingVars, soft, held, verdict, stored, own, jobs>>

(***************************************************************************)
(* Time limits.                                                            *)
(***************************************************************************)
Strike == ~soft /\ soft' = TRUE

\* The soft limit is an exception like others: swallowed with the page or the
\* element that is being read, and with the text of an article.
SoftLimitSwallowed ==
    /\ Strike
    /\ \/ /\ stage = "page"
          /\ (\E l \in left : SkipLink(l)) \/ (crawler.guarded /\ LeavePage)
          /\ UNCHANGED <<page, noted, gathered>>
       \/ /\ stage = "pages" /\ page < crawler.pages /\ crawler.guarded /\ page' = page + 1
          /\ UNCHANGED <<stage, left, batch, noted, gathered, upset>>
       \/ /\ stage = "details"
          /\ UNCHANGED <<stage, page, left, batch, noted, gathered, upset>>
    /\ UNCHANGED <<answered, shown, outcomeVars>>

\* Elsewhere it fails the run, between two pages too; where it falls into the
\* end of the commit, the record of the failure finds the run settled.
SoftLimitFails ==
    /\ Strike /\ stage \in {"pages", "page", "writing", "publishing"}
    /\ stage = "page" => ~crawler.guarded
    /\ stage' = "failing"
    /\ UNCHANGED <<readingVars, held, verdict, stored, own, jobs, published>>

\* In the record of a failure, or after the commit, it leaves the run as it is.
SoftLimitLate ==
    /\ Strike /\ stage \in {"failing", "publishing"} /\ stage' = "ended"
    /\ UNCHANGED <<readingVars, held, verdict, stored, own, jobs, published>>

\* The hard limit, a minute later; a worker that dies.
Killed ==
    /\ ~Over /\ stage' = "dead"
    /\ left' = {} /\ batch' = {} /\ noted' = {} /\ gathered' = {}
    /\ UNCHANGED <<page, answered, shown, upset, soft, outcomeVars>>

LegacyNext ==
    \/ NextRun \/ LoseClaim
    \/ PageOpens \/ PageRefused \/ PageDone \/ PagesDone \/ ReadDetails
    \/ \E l \in Links : TakeLink(l) \/ BrokenLink(l)
    \/ Store \/ NotAccepted \/ FindsClaimLost \/ RecordFailure \/ PublishJobs
    \/ SoftLimitSwallowed \/ SoftLimitFails \/ SoftLimitLate \/ Killed

(***************************************************************************)
(* Properties.                                                             *)
(***************************************************************************)
Good == verdict \in {"success", "no_change"}

\* Every variable keeps to its values.
LegacyTypeOK ==
    /\ crawler \in Crawlers /\ page \in 0..crawler.pages
    /\ stage \in {"pages", "page", "details", "writing", "failing", "publishing", "ended", "dead"}
    /\ left \cup batch \cup gathered \subseteq shown /\ shown \subseteq Links
    /\ noted \cup stored \subseteq Identities /\ own \subseteq stored /\ published \subseteq own
    /\ jobs \in [Identities -> 0..1]
    /\ verdict \in {"running", "success", "no_change", "failed", "stale"}
    /\ {soft, held, upset, answered} \subseteq BOOLEAN
    /\ tries \in 1..MaxTries

\* A run leaves articles if and only if it is recorded as having found new
\* ones, whatever limit, lost claim or bad entry stopped it and wherever.
AllOrNothing == (verdict = "success") <=> own # {}

\* A run is only recorded as good when a page of the source came: an outage is
\* never taken for a quiet source, though the crawlers leave failed pages out.
OutageIsNoQuiet == Good => answered

\* A good run has stored each identity of its pages that had a title, unless
\* something it left out on the way took it along.
NothingOverlooked == Good /\ ~upset => \A l \in shown : l.kind = "fine" => Known(l.id, stored)

\* Each article has the one job of the run that stored it, and articles the
\* database takes for one are one.
OneJobEach ==
    /\ \A i \in Identities : jobs[i] = IF i \in stored THEN 1 ELSE 0
    /\ \A i, j \in stored : SameToDatabase(i, j) => i = j

\* The runs of legacy crawlers store what their pages had, once, or nothing.
LegacyRunsSound == AllOrNothing /\ OutageIsNoQuiet /\ NothingOverlooked /\ OneJobEach
=============================================================================
