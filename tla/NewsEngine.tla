----------------------------- MODULE NewsEngine -----------------------------
(***************************************************************************)
(* One run of a recipe: the engine walks through the list pages, reads the *)
(* cards and their detail pages and sums up what it saw (engine.py,        *)
(* quality.py), and the transaction that follows turns this into the       *)
(* outcome of the run (_ingestion.py), which the contract of outcomes must *)
(* accept (contracts.py).  Documents are what their readers make of them:  *)
(* cards and errors.  Error codes are told apart by class only, as far as  *)
(* the status and the contract tell them apart; what the schedule makes of *)
(* them is CrawlRun's.                                                     *)
(***************************************************************************)
EXTENDS Integers

CONSTANTS
    MaxWalk,     \* bound on the pages of a run: list pages of the recipe, times
                 \* the pages that follow one, itself included
    MaxCards,    \* cards of a page
    MaxRead,     \* cards read in a run (200)
    Baselines    \* medians of what earlier runs found valid, 0 for no baseline

\* access: _ACCESS.  extraction: every other code.
Classes == {"access", "low_quality", "no_evidence", "extraction"}

ASSUME EngineConstants ==
    /\ {MaxWalk, MaxRead} \subseteq Nat \ {0} /\ MaxCards \in Nat
    /\ Baselines \subseteq Nat

VARIABLES
    at,        \* where the engine is
    recipe,    \* what of the recipe and the profile matters here
    sums,      \* the counters of the preview
    seen,      \* how many articles, each of another address
    errors,    \* their classes
    late,      \* the deadline of the run has passed
    outcome    \* of the run, when it is over

engineVars == <<at, recipe, sums, seen, errors, late, outcome>>

NoOutcome == [status |-> "none"]
Zero == [discovered |-> 0, extracted |-> 0, rejected |-> 0, duplicates |-> 0, pages |-> 0]

EngineInit ==
    /\ recipe \in [rss: BOOLEAN, lists: 1..MaxWalk, pages: 1..MaxWalk, baseline: Baselines]
    /\ recipe.lists * recipe.pages <= MaxWalk
    /\ recipe.rss => recipe.lists = 1 /\ recipe.pages = 1
    /\ at = [step |-> "page", list |-> 1, page |-> 1, cards |-> 0, next |-> FALSE]
    /\ sums = Zero
    /\ seen = 0 /\ errors = {} /\ late = FALSE
    /\ outcome = NoOutcome

Walking(step) == at.step = step
Spent == sums.extracted >= MaxRead \/ late
Failing(classes) == errors' = errors \cup classes

\* The next list page of the recipe, or the end.
NextList == IF at.list < recipe.lists
            THEN [at EXCEPT !.step = "page", !.list = @ + 1, !.page = 1, !.cards = 0]
            ELSE [at EXCEPT !.step = "end", !.cards = 0]
\* After the last card: the next page of this list, if it is linked.
NextPage == IF at.next /\ at.page < recipe.pages
            THEN [at EXCEPT !.step = "page", !.page = @ + 1]
            ELSE NextList

\* The mutant does not say so.
ExhaustQuietly ==
    /\ Walking("page") \/ (Walking("cards") /\ at.cards > 0)
    /\ Spent
    /\ at' = [at EXCEPT !.step = "end", !.cards = 0]
    /\ UNCHANGED <<recipe, sums, seen, errors, late, outcome>>
\* Out of time, or enough cards: nothing more is read.
Exhaust ==
    /\ Walking("page") \/ (Walking("cards") /\ at.cards > 0)
    /\ Spent
    /\ Failing({"extraction"})
    /\ at' = [at EXCEPT !.step = "end", !.cards = 0]
    /\ UNCHANGED <<recipe, sums, seen, late, outcome>>

\* The page is refused, seen before, not fetched, not changed, or does not parse.
PageFails ==
    /\ Walking("page") /\ ~Spent
    /\ \E class \in Classes : Failing({class})
    /\ at' = NextList
    /\ UNCHANGED <<recipe, sums, seen, late, outcome>>

\* A page without cards is no evidence, but an empty feed is an answer.
PageRead ==
    /\ Walking("page") /\ ~Spent
    /\ \E n \in 0..MaxCards, next \in BOOLEAN :
           /\ at' = [at EXCEPT !.step = "cards", !.cards = n, !.next = next]
           /\ sums' = [sums EXCEPT !.discovered = @ + n, !.pages = @ + 1]
           /\ Failing(IF n = 0 /\ ~recipe.rss THEN {"no_evidence"} ELSE {})
    /\ UNCHANGED <<recipe, seen, late, outcome>>

\* What may go wrong with the body of a card and with its detail page: then
\* the card goes without, and the run has the errors.
Mishaps == {{}} \cup {{c, d} : c, d \in Classes}

\* A card that cannot be an article, or has an address that is not allowed.
CardRejected ==
    /\ Walking("cards") /\ at.cards > 0 /\ ~Spent
    /\ \E class \in {"extraction", "access"}, more \in Mishaps : Failing({class} \cup more)
    /\ at' = [at EXCEPT !.cards = @ - 1]
    /\ sums' = [sums EXCEPT !.extracted = @ + 1, !.rejected = @ + 1]
    /\ UNCHANGED <<recipe, seen, late, outcome>>

\* A card of an address that was read before.
CardRepeated ==
    /\ Walking("cards") /\ at.cards > 0 /\ ~Spent
    /\ seen > 0
    /\ at' = [at EXCEPT !.cards = @ - 1]
    /\ sums' = [sums EXCEPT !.extracted = @ + 1, !.duplicates = @ + 1]
    /\ UNCHANGED <<recipe, seen, errors, late, outcome>>

CardAccepted ==
    /\ Walking("cards") /\ at.cards > 0 /\ ~Spent
    /\ seen' = seen + 1
    /\ \E more \in Mishaps : Failing(more)
    /\ at' = [at EXCEPT !.cards = @ - 1]
    /\ sums' = [sums EXCEPT !.extracted = @ + 1]
    /\ UNCHANGED <<recipe, late, outcome>>

CardsDone ==
    /\ Walking("cards") /\ at.cards = 0
    /\ at' = NextPage
    /\ UNCHANGED <<recipe, sums, seen, errors, late, outcome>>

TimeUp ==
    /\ at.step \in {"page", "cards", "end"} /\ ~late
    /\ late' = TRUE
    /\ UNCHANGED <<at, recipe, sums, seen, errors, outcome>>

(***************************************************************************)
(* The summary of a preview.                                               *)
(***************************************************************************)
Valid == seen + sums.duplicates
BelowBaseline ==
    \/ sums.extracted > 0 /\ 10 * Valid < 9 * sums.extracted
    \/ recipe.baseline > 0 /\ 2 * Valid < recipe.baseline

\* The errors of the whole run.
Errors == errors \cup (IF late THEN {"extraction"} ELSE {})
                 \cup (IF BelowBaseline THEN {"low_quality"} ELSE {})

NothingNew == recipe.rss /\ sums.pages > 0 /\ sums.discovered = 0 /\ Errors = {}
PreviewStatus ==
    IF NothingNew THEN "no_change"
    ELSE IF seen > 0
    THEN IF Errors = {} THEN "ready" ELSE IF Errors = {"low_quality"} THEN "degraded" ELSE "partial"
    ELSE IF "access" \in Errors THEN "blocked"
    ELSE IF Errors \ {"no_evidence"} # {} THEN "failed" ELSE "inconclusive"

(***************************************************************************)
(* The outcome, and what its contract asks for.                            *)
(***************************************************************************)
Quality(new, updated, duplicate, reason) ==
    [discovered |-> sums.discovered, extracted |-> sums.extracted, valid |-> Valid,
     rejected |-> sums.rejected, duplicate |-> duplicate, new |-> new, updated |-> updated,
     reason |-> reason, evidence |-> sums.pages]

QualityAccepted(q) ==
    /\ q.valid + q.rejected = q.extracted /\ q.extracted <= q.discovered
    /\ q.duplicate + q.new + q.updated <= q.valid
    /\ q.reason # "none" =>
           /\ q.new = 0 /\ q.updated = 0 /\ q.rejected = 0 /\ q.evidence > 0
           /\ IF q.reason = "all_duplicates"
              THEN q.discovered = q.extracted /\ q.extracted = q.valid /\ q.valid = q.duplicate /\ q.duplicate > 0
              ELSE q.discovered = 0

OutcomeAccepted(o) ==
    LET q == o.quality  written == q.new + q.updated IN
    /\ QualityAccepted(q)
    /\ o.status \in {"no_change", "inconclusive", "blocked", "failed"} => written = 0
    /\ o.status \in {"success", "partial", "degraded"} => q.valid = written + q.duplicate
    /\ o.status = "success" =>
           written > 0 /\ o.errors = {} /\ q.rejected = 0 /\ q.extracted = q.discovered
    /\ o.status = "partial" => q.valid > 0 /\ (q.rejected > 0 \/ o.errors # {})
    /\ o.status = "degraded" => q.valid > 0 /\ "low_quality" \in o.errors
    /\ o.status = "failed" => o.errors # {}
    /\ o.status = "blocked" => "access" \in o.errors
    /\ (o.status = "no_change") <=> (q.reason # "none")
    /\ o.status = "no_change" => o.errors = {}

\* Articles of the preview are new, better than what is there, or neither.
\* An error of the transaction, or a run that was taken over, fails it all.
Settles(new, updated) ==
    LET known == seen - new - updated
        status == IF PreviewStatus # "ready" THEN PreviewStatus
                  ELSE IF new + updated > 0 THEN "success" ELSE "no_change"
        reason == IF NothingNew THEN "confirmed_empty"
                  ELSE IF status = "no_change" THEN "all_duplicates" ELSE "none"
    IN [status |-> status, errors |-> Errors,
        quality |-> Quality(new, updated, sums.duplicates + known, reason)]

Ingest ==
    /\ Walking("end")
    /\ \E new, updated \in 0..seen :
           /\ new + updated <= seen
           /\ outcome' = Settles(new, updated)
    /\ at' = [at EXCEPT !.step = "over"]
    /\ UNCHANGED <<recipe, sums, seen, errors, late>>

IngestFails ==
    /\ Walking("end")
    /\ outcome' = [status |-> "failed", errors |-> Errors \cup {"extraction"},
                   quality |-> Quality(0, 0, sums.duplicates, "none")]
    /\ at' = [at EXCEPT !.step = "over"]
    /\ UNCHANGED <<recipe, sums, seen, errors, late>>

EngineNext ==
    \/ Exhaust \/ PageFails \/ PageRead
    \/ CardRejected \/ CardRepeated \/ CardAccepted \/ CardsDone
    \/ TimeUp \/ Ingest \/ IngestFails

EngineTypeOK ==
    /\ at.step \in {"page", "cards", "end", "over"}
    /\ at.list \in 1..MaxWalk /\ at.page \in 1..MaxWalk /\ at.cards \in 0..MaxCards
    /\ sums \in [DOMAIN Zero -> Nat]
    /\ seen \in Nat /\ errors \subseteq Classes
    /\ late \in BOOLEAN

\* Whatever a run met on its pages and found in the database, the outcome
\* that is built from its counters, errors and status is one that the
\* contract accepts: otherwise the articles of the run are thrown away at
\* the very end.
OutcomesAccepted == outcome # NoOutcome => OutcomeAccepted(outcome)

EngineSpec == EngineInit /\ [][EngineNext]_engineVars
=============================================================================
