--------------------------- MODULE ContentProofs ---------------------------
(***************************************************************************)
(* Proofs about the parts of Content: the schedule of a source, the        *)
(* evidence store, the engine of recipes, the runs of legacy crawlers, the *)
(* daily mails and the catalogue of companies.  Each part has an inductive *)
(* invariant of its own; it is kept beside the others because a step of    *)
(* another part leaves its variables as they are.                          *)
(***************************************************************************)
EXTENDS Content, SetSums, TLAPS

----------------------------------------------------------------------------
\* The evidence store.

\* Who is about to create or to write a file holds the lock, and a file that is
\* being written is there, and will last as long as its reference.
LockHeld ==
    \A s \in Savers : saver[s].step \in {"locked", "open"} => locked = s
BeingWritten ==
    \A s \in Savers : saver[s].step = "open" =>
        \E f \in files : f.key = saver[s].key /\ f.size = saver[s].size

\* The file of a reference lasts as long as the reference.
RefsOutlived ==
    \A r \in refs : r.left > 0 =>
        \E f \in files : f.key = r.key /\ f.whole /\ f.size = r.size /\ f.left >= r.left

EvidenceInv ==
    /\ EvidenceTypeOK /\ IsFiniteSet(files) /\ Listed
    /\ LockHeld /\ BeingWritten /\ RefsOutlived

----------------------------------------------------------------------------
\* The engine of recipes.

Recipes == [rss: BOOLEAN, lists: 1..MaxWalk, pages: 1..MaxWalk, baseline: Baselines]
Places == [step: {"page", "cards", "end", "over"}, list: 1..MaxWalk, page: 1..MaxWalk,
           cards: 0..MaxCards, next: BOOLEAN]

\* The counters add up, and nothing is missing from them without an error.
CountersAddUp ==
    /\ sums.extracted = seen + sums.duplicates + sums.rejected
    /\ sums.extracted + at.cards <= sums.discovered
    /\ errors = {} => sums.extracted + at.cards = sums.discovered
    /\ sums.rejected > 0 => errors # {}
    /\ sums.duplicates > 0 => seen > 0
    /\ sums.discovered > 0 => sums.pages > 0
    /\ at.step # "cards" => at.cards = 0

EngineInv ==
    /\ EngineTypeOK /\ recipe \in Recipes /\ at \in Places
    /\ CountersAddUp
    /\ outcome # NoOutcome => at.step = "over"
    /\ OutcomesAccepted

----------------------------------------------------------------------------
\* The runs of legacy crawlers.

Reading == stage \in {"pages", "page", "details", "writing"}

\* The claim is held until something is recorded, and results are recorded once.
ClaimUntilVerdict ==
    /\ held => verdict = "running"
    /\ Good => stage \in {"publishing", "failing", "ended", "dead"}
    /\ ~Over => published = {}

\* A crawler that stops at a page that fails has had an answer from every page.
AnsweredSoFar ==
    /\ shown # {} => answered
    /\ Reading /\ ~crawler.guarded /\ page > 0 => answered
    /\ stage = "page" => answered
    /\ stage \in {"details", "writing"} => page = crawler.pages

\* Of what the pages had, nothing is lost quietly.
NothingLost ==
    /\ stage \in {"pages", "details", "writing"} => left = {} /\ batch = {}
    /\ Reading /\ ~crawler.atOnce => batch = {}
    /\ Reading /\ ~upset =>
          /\ \A l \in shown : l.kind = "fine" =>
                l \in left \/ \E g \in gathered \cup batch : g.id = l.id
          /\ \A i \in noted : \E g \in gathered \cup batch : g.id = i

LegacyInv ==
    LegacyTypeOK /\ LegacyRunsSound /\ ClaimUntilVerdict /\ AnsweredSoFar /\ NothingLost

----------------------------------------------------------------------------
\* The daily mails.

\* A story that did not come in a digest is younger than the user's last turn,
\* unless that turn passed it.
YoungerThanTheTurn ==
    \A u \in Readers, s \in Stories :
        age[s] # Unseen /\ s \notin inbox[u] =>
            u \in excused \/ <<u, s>> \in passed \/ age[s] <= since[u]

\* What can be seen has a stamp; what a user was sent, or a run sees, is committed.
SeenIsStamped ==
    /\ visible \subseteq Stamped /\ \A u \in Readers : inbox[u] \subseteq visible
    /\ run # NoRun => run.sees.visible \subseteq visible

\* A user deleted under a run that has not noticed may cost it one log.
DeletedUnnoticed == run # NoRun /\ \E u \in Readers : run.sees.reader[u].there /\ ~reader[u].there
LogsAccounted == unlogged + (IF DeletedUnnoticed THEN 1 ELSE 0) <= upsets

DigestInv == DigestTypeOK /\ YoungerThanTheTurn /\ SeenIsStamped /\ LogsAccounted

----------------------------------------------------------------------------
\* The catalogue of companies.

\* A name that a merge gave to a company is one of its aliases.
AbsorbedAreAliases ==
    \A n \in Names : absorbed[n] # NoFirm =>
        absorbed[n] \in Present /\ n \in row[absorbed[n]].aliases

\* What a merge has read of names and links that others may change meanwhile: the
\* names are as read unless it was crossed, and an article of which it drops a
\* link still has the target's.
Knows(m) ==
    merge[m] # NoMerge =>
        /\ merge[m].target <= created /\ merge[m].source <= created /\ merge[m].target # merge[m].source
        /\ \A l \in merge[m].drops : l[3] <= readings
        /\ ~merge[m].crossed /\ merge[m].target \in Present => row[merge[m].target].aliases = merge[m].names
        /\ ~merge[m].crossed /\ merge[m].source \in Present => NamesOf(merge[m].source) = merge[m].others
        /\ \A l \in merge[m].drops \cap Linked :
              merge[m].target \in Present /\ ArticleOf(l) \notin torn =>
                 \E k \in LinksOf(merge[m].target) : ArticleOf(k) = ArticleOf(l)
MergeKnows == \A m \in Mergers : Knows(m)

CatalogueInv ==
    CatalogueTypeOK /\ OneSlugEach /\ LinksFollow /\ AbsorbedAreAliases /\ MergeKnows

----------------------------------------------------------------------------
\* The engine keeps its invariant.

\* A value of an updated function.
LEMMA Counter ==
    ASSUME NEW f \in [DOMAIN Zero -> Nat], NEW c \in DOMAIN Zero, NEW n \in Nat
    PROVE  [f EXCEPT ![c] = n] \in [DOMAIN Zero -> Nat]
OBVIOUS

LEMMA CounterNames == DOMAIN Zero = {"discovered", "extracted", "rejected", "duplicates", "pages"}
BY DEF Zero

LEMMA CountersAre ==
    ASSUME EngineTypeOK
    PROVE  /\ sums.discovered \in Nat /\ sums.extracted \in Nat /\ sums.rejected \in Nat
           /\ sums.duplicates \in Nat /\ sums.pages \in Nat /\ seen \in Nat
BY CounterNames DEF EngineTypeOK

\* The outcome of a run that was stored is one that the contract accepts.
LEMMA SettledAccepted ==
    ASSUME EngineInv, at.step = "end",
           NEW new \in 0..seen, NEW updated \in 0..seen, new + updated <= seen
    PROVE  OutcomeAccepted(Settles(new, updated))
<1> DEFINE D == sums.discovered  X == sums.extracted  R == sums.rejected
           U == sums.duplicates  P == sums.pages  o == Settles(new, updated)
<1>1. D \in Nat /\ X \in Nat /\ R \in Nat /\ U \in Nat /\ P \in Nat /\ seen \in Nat
  BY CountersAre DEF EngineInv
<1>2. new \in Nat /\ updated \in Nat
  BY <1>1
<1>3. /\ X = seen + U + R /\ X <= D
      /\ errors = {} => X = D
      /\ R > 0 => errors # {}
      /\ U > 0 => seen > 0
  BY <1>1 DEF EngineInv, CountersAddUp, Places
<1>4. Errors = {} => errors = {}
  BY DEF Errors
<1>. HIDE DEF D, X, R, U, P
<1>5. CASE NothingNew
  <2>1. P > 0 /\ D = 0 /\ Errors = {} /\ PreviewStatus = "no_change"
    BY <1>5 DEF NothingNew, PreviewStatus, D, P
  <2>2. seen = 0 /\ U = 0 /\ R = 0 /\ X = 0 /\ new = 0 /\ updated = 0
    BY <2>1, <1>1, <1>2, <1>3
  <2>3. /\ o.status = "no_change" /\ o.errors = {}
        /\ o.quality = [discovered |-> D, extracted |-> X, valid |-> seen + U, rejected |-> R,
                        duplicate |-> U + (seen - new - updated), new |-> new,
                        updated |-> updated, reason |-> "confirmed_empty", evidence |-> P]
    BY <1>5, <2>1 DEF Settles, Quality, Valid, D, X, R, U, P
  <2>. HIDE DEF o
  <2>. QED
    BY <2>1, <2>2, <2>3, <1>1 DEF OutcomeAccepted, QualityAccepted, o
<1>6. CASE ~NothingNew /\ seen > 0
  <2> DEFINE written == new + updated
             reason == IF Errors = {} /\ written = 0 THEN "all_duplicates" ELSE "none"
  <2>1. PreviewStatus = IF Errors = {} THEN "ready"
                        ELSE IF Errors = {"low_quality"} THEN "degraded" ELSE "partial"
    BY <1>6 DEF PreviewStatus
  <2>2. o.quality = [discovered |-> D, extracted |-> X, valid |-> seen + U, rejected |-> R,
                     duplicate |-> U + (seen - new - updated), new |-> new,
                     updated |-> updated, reason |-> reason, evidence |-> P]
    <3>1. reason = IF o.status = "no_change" THEN "all_duplicates" ELSE "none"
      BY <1>2, <1>6, <2>1 DEF Settles
    <3>. QED
      BY <1>6, <3>1 DEF Settles, Quality, Valid, D, X, R, U, P
  <2>3. /\ o.errors = Errors
        /\ o.status = IF Errors = {} THEN IF written > 0 THEN "success" ELSE "no_change"
                      ELSE IF Errors = {"low_quality"} THEN "degraded" ELSE "partial"
    BY <2>1 DEF Settles
  <2>4. P > 0
    BY <1>1, <1>3, <1>6 DEF EngineInv, CountersAddUp, D, P
  <2>. HIDE DEF o, reason
  <2>5. reason \in {"all_duplicates", "none"}
        /\ (reason = "all_duplicates" <=> (Errors = {} /\ written = 0))
    BY DEF reason
  <2>6. QualityAccepted(o.quality)
    BY <2>2, <2>4, <2>5, <1>1, <1>2, <1>3, <1>4, <1>6 DEF QualityAccepted
  <2>7. OutcomeAccepted(o)
    BY <2>2, <2>3, <2>5, <2>6, <1>1, <1>2, <1>3, <1>4, <1>6 DEF OutcomeAccepted
  <2>. QED
    BY <2>7 DEF o
<1>7. CASE ~NothingNew /\ seen = 0
  <2>1. PreviewStatus = IF "access" \in Errors THEN "blocked"
                        ELSE IF Errors \ {"no_evidence"} # {} THEN "failed" ELSE "inconclusive"
    BY <1>7, <1>1 DEF PreviewStatus
  <2>2. /\ o.status = PreviewStatus /\ o.errors = Errors
        /\ o.quality = [discovered |-> D, extracted |-> X, valid |-> seen + U, rejected |-> R,
                        duplicate |-> U + (seen - new - updated), new |-> new,
                        updated |-> updated, reason |-> "none", evidence |-> P]
    BY <1>7, <2>1 DEF Settles, Quality, Valid, D, X, R, U, P
  <2>3. U = 0 /\ new = 0 /\ updated = 0
    BY <1>7, <1>1, <1>2, <1>3
  <2>. HIDE DEF o
  <2>5. QualityAccepted(o.quality)
    BY <2>2, <2>3, <1>1, <1>3, <1>7 DEF QualityAccepted
  <2>6. OutcomeAccepted(o)
    BY <2>1, <2>2, <2>3, <2>5, <1>1, <1>3, <1>7 DEF OutcomeAccepted
  <2>. QED
    BY <2>6 DEF o
<1>. QED
  BY <1>1, <1>5, <1>6, <1>7

LEMMA FailureAccepted ==
    ASSUME EngineInv, at.step = "end", IngestFails
    PROVE  OutcomesAccepted'
<1>1. outcome' = [status |-> "failed", errors |-> Errors \cup {"extraction"},
                   quality |-> Quality(0, 0, sums.duplicates, "none")]
  BY DEF IngestFails
<1> DEFINE q == Quality(0, 0, sums.duplicates, "none")
<1>2. /\ q.valid = seen + sums.duplicates /\ q.rejected = sums.rejected
      /\ q.extracted = sums.extracted /\ q.discovered = sums.discovered
      /\ q.duplicate = sums.duplicates /\ q.new = 0 /\ q.updated = 0 /\ q.reason = "none"
  BY DEF Quality, Valid
<1>3. /\ outcome'.status = "failed" /\ outcome'.errors = Errors \cup {"extraction"}
      /\ outcome'.quality = q
  BY <1>1
<1>. HIDE DEF q
<1>5. /\ sums.extracted = seen + sums.duplicates + sums.rejected
      /\ sums.extracted <= sums.discovered
  BY CountersAre DEF EngineInv, CountersAddUp, Places
<1>6. QualityAccepted(q)
  BY <1>2, <1>5, CountersAre DEF QualityAccepted, EngineInv
<1>7. OutcomeAccepted(outcome')
  BY <1>2, <1>3, <1>6 DEF OutcomeAccepted
<1>. QED
  BY <1>7 DEF OutcomesAccepted

LEMMA EngineInitially == EngineConstants /\ EngineInit => EngineInv
<1> SUFFICES ASSUME EngineConstants, EngineInit PROVE EngineInv
  OBVIOUS
<1>1. MaxWalk \in Nat \ {0} /\ MaxCards \in Nat
  BY DEF EngineConstants
<1>2. at \in Places /\ recipe \in Recipes
  BY <1>1 DEF EngineInit, Places, Recipes
<1>3. EngineTypeOK
  <2>1. Zero \in [DOMAIN Zero -> Nat]
    BY CounterNames DEF Zero
  <2>2. sums \in [DOMAIN Zero -> Nat]
    BY <2>1 DEF EngineInit
  <2>. QED
    BY <1>2, <2>2 DEF EngineInit, EngineTypeOK, Places
<1>4. CountersAddUp
  BY DEF EngineInit, CountersAddUp, Zero
<1>. QED
  BY <1>2, <1>3, <1>4 DEF EngineInit, EngineInv, OutcomesAccepted

\* Where the engine may go.
LEMMA PlaceAfter ==
    ASSUME EngineConstants, recipe \in Recipes, at \in Places
    PROVE  /\ [at EXCEPT !.step = "end", !.cards = 0] \in Places
           /\ NextList \in Places /\ NextList.cards = 0 /\ NextList.step \in {"page", "end"}
           /\ at.cards = 0 => NextPage \in Places /\ NextPage.cards = 0
                              /\ NextPage.step \in {"page", "end"}
<1>1. MaxWalk \in Nat \ {0} /\ MaxCards \in Nat
  BY DEF EngineConstants
<1>2. /\ at.list \in 1..MaxWalk /\ at.page \in 1..MaxWalk /\ at.cards \in 0..MaxCards
      /\ at.next \in BOOLEAN /\ recipe.lists \in 1..MaxWalk /\ recipe.pages \in 1..MaxWalk
  BY DEF Places, Recipes
<1>3. at.list < recipe.lists => at.list + 1 \in 1..MaxWalk
  BY <1>1, <1>2
<1>4. at.page < recipe.pages => at.page + 1 \in 1..MaxWalk
  BY <1>1, <1>2
<1>5. 1 \in 1..MaxWalk /\ 0 \in 0..MaxCards
  BY <1>1
<1>6. [at EXCEPT !.step = "end", !.cards = 0] \in Places
  BY <1>5 DEF Places
<1>7. NextList \in Places /\ NextList.cards = 0 /\ NextList.step \in {"page", "end"}
  BY <1>3, <1>5 DEF NextList, Places
<1>8. ASSUME at.cards = 0
      PROVE  NextPage \in Places /\ NextPage.cards = 0 /\ NextPage.step \in {"page", "end"}
  BY <1>4, <1>5, <1>7, <1>8 DEF NextPage, Places
<1>. QED
  BY <1>6, <1>7, <1>8

\* A run that goes on keeps everything when its new place is one and its counters
\* add up.
LEMMA GoesOnReading ==
    ASSUME EngineInv, UNCHANGED <<recipe, outcome>>, at.step # "over",
           EngineTypeOK', at' \in Places, CountersAddUp'
    PROVE  EngineInv'
<1>1. outcome = NoOutcome
  BY DEF EngineInv
<1>2. outcome' = NoOutcome
  BY <1>1
<1>. QED
  BY <1>2 DEF EngineInv, OutcomesAccepted, NoOutcome

LEMMA EngineStep == EngineConstants /\ EngineInv /\ [EngineNext]_engineVars => EngineInv'
<1> SUFFICES ASSUME EngineConstants, EngineInv, [EngineNext]_engineVars PROVE EngineInv'
  OBVIOUS
<1>1. /\ EngineTypeOK /\ recipe \in Recipes /\ at \in Places /\ CountersAddUp
      /\ MaxWalk \in Nat \ {0} /\ MaxCards \in Nat
  BY DEF EngineInv, EngineConstants
<1>2. /\ sums.discovered \in Nat /\ sums.extracted \in Nat /\ sums.rejected \in Nat
      /\ sums.duplicates \in Nat /\ sums.pages \in Nat /\ seen \in Nat
  BY <1>1, CountersAre
<1>3. /\ at.step \in {"page", "cards", "end", "over"} /\ at.cards \in 0..MaxCards
      /\ sums \in [DOMAIN Zero -> Nat] /\ errors \subseteq Classes /\ late \in BOOLEAN
  BY <1>1 DEF EngineTypeOK
<1>4. CASE Exhaust
  <2>1. at.step \in {"page", "cards"} /\ at' = [at EXCEPT !.step = "end", !.cards = 0]
        /\ errors' = errors \cup {"extraction"} /\ UNCHANGED <<recipe, sums, seen, late, outcome>>
    BY <1>4 DEF Exhaust, Walking, Failing
  <2>2. at' \in Places /\ at'.cards = 0 /\ at'.step = "end"
    BY <2>1, <1>1, PlaceAfter DEF Places
  <2>3. EngineTypeOK'
    BY <2>1, <2>2, <1>2, <1>3 DEF EngineTypeOK, Places, Classes
  <2>4. CountersAddUp'
    BY <2>1, <2>2, <1>1, <1>2, <1>3 DEF CountersAddUp
  <2>. QED
    BY <2>1, <2>2, <2>3, <2>4, GoesOnReading
<1>5. CASE PageFails
  <2>1. at.step = "page" /\ at' = NextList /\ UNCHANGED <<recipe, sums, seen, late, outcome>>
    BY <1>5 DEF PageFails, Walking
  <2>2. errors' \subseteq Classes /\ errors' # {}
    BY <1>3, <1>5 DEF PageFails, Failing
  <2>3. at' \in Places /\ at'.cards = 0
    BY <2>1, <1>1, PlaceAfter
  <2>4. EngineTypeOK'
    BY <2>1, <2>2, <2>3, <1>2, <1>3 DEF EngineTypeOK, Places
  <2>5. CountersAddUp'
    BY <2>1, <2>2, <2>3, <1>1, <1>2, <1>3 DEF CountersAddUp
  <2>. QED
    BY <2>1, <2>3, <2>4, <2>5, GoesOnReading
<1>6. CASE PageRead
  <2>1. PICK n \in 0..MaxCards, next \in BOOLEAN :
           /\ at' = [at EXCEPT !.step = "cards", !.cards = n, !.next = next]
           /\ sums' = [sums EXCEPT !.discovered = @ + n, !.pages = @ + 1]
           /\ Failing(IF n = 0 /\ ~recipe.rss THEN {"no_evidence"} ELSE {})
    BY <1>6, Zenon DEF PageRead
  <2>2. at.step = "page" /\ UNCHANGED <<recipe, seen, late, outcome>>
    BY <1>6 DEF PageRead, Walking
  <2>3. at' \in Places /\ at'.cards = n /\ at'.step = "cards"
    BY <2>1, <1>1 DEF Places
  <2>4. errors \subseteq errors' /\ errors' \subseteq Classes
    BY <2>1, <1>3 DEF Failing, Classes
  <2>5. n \in Nat /\ sums.discovered + n \in Nat /\ sums.pages + 1 \in Nat
    BY <1>1, <1>2
  <2>6. /\ sums' \in [DOMAIN Zero -> Nat]
        /\ sums'.discovered = sums.discovered + n /\ sums'.pages = sums.pages + 1
        /\ sums'.extracted = sums.extracted /\ sums'.rejected = sums.rejected
        /\ sums'.duplicates = sums.duplicates
    BY <2>1, <2>5, <1>3, CounterNames
  <2>7. EngineTypeOK'
    BY <2>2, <2>3, <2>4, <2>6, <1>2, <1>3 DEF EngineTypeOK, Places
  <2>8. at.cards = 0
    BY <2>2, <1>1 DEF CountersAddUp
  <2>9. CountersAddUp'
    <3>1. errors' = {} => sums.extracted = sums.discovered
      BY <2>4, <2>8, <1>1, <1>2 DEF CountersAddUp
    <3>2. sums.rejected > 0 => errors' # {}
      BY <2>4, <1>1 DEF CountersAddUp
    <3>3. /\ sums.extracted = seen + sums.duplicates + sums.rejected
          /\ sums.extracted <= sums.discovered
          /\ sums.duplicates > 0 => seen > 0
      BY <2>8, <1>1, <1>2 DEF CountersAddUp
    <3>4. seen' = seen
      BY <2>2
    <3>5. /\ sums'.extracted + at'.cards <= sums'.discovered
          /\ errors' = {} => sums'.extracted + at'.cards = sums'.discovered
      BY <2>3, <2>5, <2>6, <3>1, <3>3, <1>2
    <3>6. /\ sums'.extracted = seen' + sums'.duplicates + sums'.rejected
          /\ sums'.rejected > 0 => errors' # {}
          /\ sums'.duplicates > 0 => seen' > 0
          /\ sums'.pages > 0
      BY <2>6, <3>2, <3>3, <3>4, <1>2
    <3>. QED
      BY <2>3, <3>5, <3>6 DEF CountersAddUp
  <2>. QED
    BY <2>2, <2>3, <2>7, <2>9, GoesOnReading
<1>7. CASE CardRejected \/ CardRepeated \/ CardAccepted
  <2>1. /\ at.step = "cards" /\ at.cards > 0 /\ UNCHANGED <<recipe, late, outcome>>
        /\ at' = [at EXCEPT !.cards = @ - 1]
    BY <1>7 DEF CardRejected, CardRepeated, CardAccepted, Walking
  <2>2. at.cards - 1 \in 0..MaxCards
    BY <2>1, <1>1, <1>3
  <2>3. at' \in Places /\ at'.cards = at.cards - 1 /\ at'.step = "cards"
    BY <2>1, <2>2, <1>1 DEF Places
  <2>4. errors \subseteq errors' /\ errors' \subseteq Classes
    <3>1. \A m \in Mishaps : m \subseteq Classes
      BY DEF Mishaps
    <3>2. {"extraction", "access"} \subseteq Classes
      BY DEF Classes
    <3>. QED
      BY <1>7, <1>3, <3>1, <3>2 DEF CardRejected, CardRepeated, CardAccepted, Failing
  <2>5. \/ /\ sums' = [sums EXCEPT !.extracted = @ + 1, !.rejected = @ + 1]
           /\ seen' = seen /\ errors' # {}
        \/ /\ sums' = [sums EXCEPT !.extracted = @ + 1, !.duplicates = @ + 1]
           /\ seen' = seen /\ seen > 0
        \/ sums' = [sums EXCEPT !.extracted = @ + 1] /\ seen' = seen + 1
    BY <1>7 DEF CardRejected, CardRepeated, CardAccepted, Failing
  <2>6. sums.extracted + 1 \in Nat /\ sums.rejected + 1 \in Nat /\ sums.duplicates + 1 \in Nat
    BY <1>2
  <2>7. /\ sums' \in [DOMAIN Zero -> Nat] /\ sums'.extracted = sums.extracted + 1
        /\ sums'.discovered = sums.discovered /\ sums'.pages = sums.pages
    BY <2>5, <2>6, <1>3, CounterNames
  <2>8. \/ /\ sums'.rejected = sums.rejected + 1 /\ sums'.duplicates = sums.duplicates
           /\ seen' = seen /\ errors' # {}
        \/ /\ sums'.rejected = sums.rejected /\ sums'.duplicates = sums.duplicates + 1
           /\ seen' = seen /\ seen > 0
        \/ /\ sums'.rejected = sums.rejected /\ sums'.duplicates = sums.duplicates
           /\ seen' = seen + 1
    BY <2>5, <2>6, <1>3, CounterNames
  <2>9. EngineTypeOK'
    <3>1. seen' \in Nat
      BY <2>8, <1>2
    <3>. QED
      BY <2>1, <2>3, <2>4, <2>7, <3>1, <1>3 DEF EngineTypeOK, Places
  <2>10. CountersAddUp'
    BY <2>1, <2>3, <2>4, <2>7, <2>8, <1>1, <1>2, <1>3 DEF CountersAddUp
  <2>. QED
    BY <2>1, <2>3, <2>9, <2>10, GoesOnReading
<1>8. CASE CardsDone
  <2>1. at.cards = 0 /\ at.step = "cards" /\ at' = NextPage
        /\ UNCHANGED <<recipe, sums, seen, errors, late, outcome>>
    BY <1>8 DEF CardsDone, Walking
  <2>2. at' \in Places /\ at'.cards = 0
    BY <2>1, <1>1, PlaceAfter
  <2>3. EngineTypeOK'
    BY <2>1, <2>2, <1>2, <1>3 DEF EngineTypeOK, Places
  <2>4. CountersAddUp'
    BY <2>1, <2>2, <1>1, <1>2, <1>3 DEF CountersAddUp
  <2>. QED
    BY <2>1, <2>2, <2>3, <2>4, GoesOnReading
<1>9. CASE TimeUp
  <2>1. at.step # "over" /\ late' = TRUE /\ UNCHANGED <<at, recipe, sums, seen, errors, outcome>>
    BY <1>9 DEF TimeUp
  <2>2. EngineTypeOK'
    BY <2>1, <1>1 DEF EngineTypeOK
  <2>3. CountersAddUp' /\ at' \in Places
    BY <2>1, <1>1 DEF CountersAddUp
  <2>. QED
    BY <2>1, <2>2, <2>3, GoesOnReading
<1>10. CASE Ingest \/ IngestFails
  <2>1. /\ at.step = "end" /\ at' = [at EXCEPT !.step = "over"]
        /\ UNCHANGED <<recipe, sums, seen, errors, late>>
    BY <1>10 DEF Ingest, IngestFails, Walking
  <2>2. at' \in Places /\ at'.step = "over" /\ at'.cards = at.cards
    BY <2>1, <1>1 DEF Places
  <2>3. EngineTypeOK'
    BY <2>1, <2>2, <1>2, <1>3 DEF EngineTypeOK, Places
  <2>4. CountersAddUp'
    BY <2>1, <2>2, <1>1 DEF CountersAddUp
  <2>5. OutcomesAccepted'
    <3>1. CASE Ingest
      <4>1. PICK new \in 0..seen, updated \in 0..seen :
              new + updated <= seen /\ outcome' = Settles(new, updated)
        BY <3>1 DEF Ingest
      <4>. QED
        BY <2>1, <4>1, SettledAccepted DEF OutcomesAccepted
    <3>. QED
      BY <1>10, <2>1, <3>1, FailureAccepted
  <2>6. recipe' \in Recipes
    BY <2>1, <1>1
  <2>. QED
    BY <2>2, <2>3, <2>4, <2>5, <2>6 DEF EngineInv
<1>11. CASE UNCHANGED engineVars
  BY <1>11 DEF engineVars, EngineInv, EngineTypeOK, CountersAddUp, OutcomesAccepted
<1>. QED
  BY <1>4, <1>5, <1>6, <1>7, <1>8, <1>9, <1>10, <1>11 DEF EngineNext

LEMMA EngineBeside == [ContentNext]_contentVars => [EngineNext]_engineVars
BY DEF ContentNext, contentVars

\* However the pages of a run were and whatever its articles met in the
\* database, the outcome built at its end is one that the contract of outcomes
\* accepts (engine.py, quality.py, _ingestion.py, contracts.py).
THEOREM OutcomesHold == ContentSpec => []OutcomesAccepted
<1>1. ContentInit => EngineInv
  BY EngineInitially, EngineConstants DEF ContentInit
<1>2. EngineInv /\ [ContentNext]_contentVars => EngineInv'
  BY EngineBeside, EngineStep, EngineConstants
<1>3. EngineInv => OutcomesAccepted
  BY DEF EngineInv
<1>. QED
  BY <1>1, <1>2, <1>3, PTL DEF ContentSpec

----------------------------------------------------------------------------
\* The runs of legacy crawlers keep their invariant.

LEMMA CrawlersAre ==
    ASSUME NEW c \in Crawlers
    PROVE  /\ c.pages \in Nat /\ c.pages > 0
           /\ c.provesEmpty => ~c.guarded
<1> DEFINE Fine(k) == k.pages \in Nat /\ k.pages > 0 /\ (k.provesEmpty => ~k.guarded)
<1>1. \A n \in Nat : n > 0 => Fine(Sections(n))
  BY DEF Sections
<1>2. Fine(OnePage) /\ OnePage.pages = 1 /\ Fine(Soitec) /\ Fine(MondeInformatique)
  BY DEF OnePage, Sections, Soitec, MondeInformatique
<1>3. Fine(TribuneAURA) /\ Fine(HTMLCrawler) /\ Fine(RSSCrawler) /\ Fine(CeaLeti)
  BY DEF OnePage, Sections, TribuneAURA, HTMLCrawler, RSSCrawler, CeaLeti
<1>4. \A k \in ResearchLab : Fine(k)
  BY <1>1 DEF ResearchLab
<1>5. /\ Fine(BrefEco) /\ Fine(InriaGrenoble) /\ Fine(LeDauphine) /\ Fine(Linksium)
      /\ Fine(UsineDigitale) /\ Fine(UsineNouvelle) /\ Fine(STMicro) /\ Fine(ESRF)
      /\ Fine(FrenchTechAlps) /\ Fine(PlaceGrenet)
  BY <1>1 DEF BrefEco, InriaGrenoble, LeDauphine, Linksium, UsineDigitale, UsineNouvelle,
              STMicro, ESRF, FrenchTechAlps, PlaceGrenet
<1>. HIDE DEF Fine
<1>6. Fine(c)
  BY <1>2, <1>3, <1>4, <1>5 DEF Crawlers
<1>. QED
  BY <1>6 DEF Fine

LEMMA LegacyInitially == LegacyAssumption /\ LegacyInit => LegacyInv
<1> SUFFICES ASSUME LegacyAssumption, LegacyInit PROVE LegacyInv
  OBVIOUS
<1>1. crawler \in Crawlers /\ 0 \in 0..crawler.pages /\ 1 \in 1..MaxTries
  BY CrawlersAre DEF LegacyInit, LegacyAssumption
<1>2. LegacyTypeOK
  <2>1. page \in 0..crawler.pages /\ tries \in 1..MaxTries
    BY <1>1 DEF LegacyInit
  <2>2. jobs \in [Identities -> 0..1]
    BY DEF LegacyInit
  <2>. QED
    BY <1>1, <2>1, <2>2 DEF LegacyInit, LegacyTypeOK
<1>3. LegacyRunsSound
  BY DEF LegacyInit, LegacyRunsSound, AllOrNothing, OutageIsNoQuiet, NothingOverlooked,
         OneJobEach, Good
<1>4. ClaimUntilVerdict /\ AnsweredSoFar /\ NothingLost
  BY DEF LegacyInit, ClaimUntilVerdict, AnsweredSoFar, NothingLost, Good, Over, Reading
<1>. QED
  BY <1>2, <1>3, <1>4 DEF LegacyInv

\* Reading, a run leaves alone what is stored, and is not recorded yet.
Reads ==
    /\ Reading /\ (Reading \/ stage = "failing")'
    /\ UNCHANGED <<crawler, held, verdict, stored, own, jobs, published, tries>>

LEMMA ReadsKeeps ==
    ASSUME LegacyInv, Reads
    PROVE  LegacyRunsSound' /\ ClaimUntilVerdict'
<1>1. ~Good /\ ~Good' /\ ~Over /\ ~Over'
  BY DEF LegacyInv, ClaimUntilVerdict, Reads, Reading, Good, Over
<1>2. AllOrNothing' /\ OneJobEach'
  BY DEF LegacyInv, LegacyRunsSound, AllOrNothing, OneJobEach, Reads, SameToDatabase
<1>3. OutageIsNoQuiet' /\ NothingOverlooked'
  BY <1>1 DEF OutageIsNoQuiet, NothingOverlooked
<1>4. ClaimUntilVerdict'
  BY <1>1 DEF LegacyInv, ClaimUntilVerdict, Reads
<1>. QED
  BY <1>2, <1>3, <1>4 DEF LegacyRunsSound

LEMMA ReadsSettled ==
    ASSUME LegacyInv, Reads,
           page' \in 0..crawler.pages, (left \cup batch \cup gathered)' \subseteq shown',
           shown' \subseteq Links, noted' \subseteq Identities,
           {soft, upset, answered}' \subseteq BOOLEAN, AnsweredSoFar', NothingLost'
    PROVE  LegacyInv'
<1>1. LegacyTypeOK'
  BY DEF LegacyInv, LegacyTypeOK, Reads, Reading
<1>. QED
  BY <1>1, ReadsKeeps DEF LegacyInv

LEMMA OpensKeeps == ASSUME LegacyAssumption, LegacyInv, PageOpens PROVE LegacyInv'
<1>1. /\ stage = "pages" /\ stage' = "page" /\ page' = page + 1 /\ page < crawler.pages
      /\ left' \subseteq Links /\ shown' = shown \cup left' /\ answered' = TRUE /\ batch' = {}
      /\ UNCHANGED <<noted, gathered, soft, upset, crawler, held, verdict, stored, own, jobs,
                     published, tries>>
  BY DEF PageOpens, outcomeVars
<1>2. LegacyTypeOK /\ AnsweredSoFar /\ NothingLost
  BY DEF LegacyInv
<1>3. Reads
  BY <1>1 DEF Reads, Reading
<1>4. page' \in 0..crawler.pages
  BY <1>1, <1>2, CrawlersAre DEF LegacyTypeOK
<1>5. AnsweredSoFar'
  BY <1>1 DEF AnsweredSoFar
<1>6. NothingLost'
  BY <1>1, <1>2 DEF NothingLost, Reading
<1>. QED
  BY <1>1, <1>2, <1>3, <1>4, <1>5, <1>6, ReadsSettled DEF LegacyTypeOK

LEMMA RefusedKeeps == ASSUME LegacyInv, PageRefused PROVE LegacyInv'
<1>1. /\ stage = "pages" /\ page' = page + 1 /\ page < crawler.pages
      /\ stage' = IF crawler.guarded THEN "pages" ELSE "failing"
      /\ UNCHANGED <<left, batch, noted, gathered, soft, answered, shown, upset, crawler, held,
                     verdict, stored, own, jobs, published, tries>>
  BY DEF PageRefused, outcomeVars
<1>2. LegacyTypeOK /\ AnsweredSoFar /\ NothingLost
  BY DEF LegacyInv
<1>3. Reads
  BY <1>1 DEF Reads, Reading
<1>4. page' \in 0..crawler.pages
  BY <1>1, <1>2, CrawlersAre DEF LegacyTypeOK
<1>5. AnsweredSoFar'
  BY <1>1, <1>2 DEF AnsweredSoFar, Reading
<1>6. NothingLost'
  BY <1>1, <1>2 DEF NothingLost, Reading
<1>. QED
  BY <1>1, <1>2, <1>3, <1>4, <1>5, <1>6, ReadsSettled DEF LegacyTypeOK

LEMMA TakeKeeps == ASSUME LegacyAssumption, LegacyInv, NEW l \in Links, TakeLink(l) PROVE LegacyInv'
<1> DEFINE new == l.id \notin noted
           taken == IF new /\ l.kind # "untitled" THEN {l} ELSE {}
<1>1. /\ stage = "page" /\ l \in left /\ l.kind # "broken" /\ left' = left \ {l}
      /\ noted' = IF new /\ Noted(l) /\ crawler.marks # "never" THEN noted \cup {l.id} ELSE noted
      /\ batch' = IF crawler.atOnce THEN batch \cup taken ELSE {}
      /\ gathered' = IF crawler.atOnce THEN gathered ELSE gathered \cup taken
      /\ upset' = (upset \/ (l.kind = "untitled" /\ crawler.marks = "early"))
      /\ UNCHANGED <<stage, page, soft, answered, shown, crawler, held, verdict, stored, own,
                     jobs, published, tries>>
  BY DEF TakeLink, outcomeVars
<1>2. LegacyTypeOK /\ AnsweredSoFar /\ NothingLost /\ l.id \in Identities /\ l.kind \in LinkKinds
  BY DEF LegacyInv, LegacyAssumption
<1>3. taken \subseteq {l} /\ l \in shown
  BY <1>1, <1>2 DEF LegacyTypeOK
<1>4. Reads /\ Reading
  BY <1>1 DEF Reads, Reading
<1>5. (gathered \cup batch)' = (gathered \cup batch) \cup taken
  BY <1>1, <1>2, <1>4 DEF NothingLost
<1>6. ASSUME ~upset' PROVE noted' \subseteq noted \cup {l.id} /\ (new /\ noted' # noted => taken = {l})
  BY <1>1, <1>2, <1>6 DEF Noted
<1>7. ASSUME l.kind = "fine" PROVE taken = {l} \/ l.id \in noted
  BY <1>7
<1>8. /\ page' \in 0..crawler.pages /\ (left \cup batch \cup gathered)' \subseteq shown'
      /\ shown' \subseteq Links /\ noted' \subseteq Identities
      /\ {soft, upset, answered}' \subseteq BOOLEAN
  BY <1>1, <1>2, <1>3 DEF LegacyTypeOK
<1>9. AnsweredSoFar'
  BY <1>1, <1>2 DEF AnsweredSoFar, Reading
<1>. HIDE DEF new, taken
<1>10. NothingLost'
  <2>1. ASSUME ~upset'
        PROVE  /\ \A k \in shown' : k.kind = "fine" =>
                     k \in left' \/ \E g \in (gathered \cup batch)' : g.id = k.id
               /\ \A i \in noted' : \E g \in (gathered \cup batch)' : g.id = i
    <3>1. /\ \A k \in shown : k.kind = "fine" =>
                k \in left \/ \E g \in gathered \cup batch : g.id = k.id
          /\ \A i \in noted : \E g \in gathered \cup batch : g.id = i
      BY <1>1, <1>2, <1>4, <2>1 DEF NothingLost
    <3>2. ASSUME NEW i \in noted' PROVE \E g \in (gathered \cup batch)' : g.id = i
      <4>1. CASE i \in noted
        BY <3>1, <4>1, <1>5
      <4>2. CASE i \notin noted
        <5>1. i = l.id /\ taken = {l}
          BY <4>2, <1>6, <2>1 DEF new
        <5>. QED
          BY <5>1, <1>5
      <4>. QED
        BY <4>1, <4>2
    <3>3. ASSUME NEW k \in shown', k.kind = "fine", k \notin left'
          PROVE  \E g \in (gathered \cup batch)' : g.id = k.id
      <4>1. CASE k = l
        BY <4>1, <3>1, <3>3, <1>5, <1>7
      <4>2. CASE k # l
        BY <4>2, <3>1, <3>3, <1>1, <1>5
      <4>. QED
        BY <4>1, <4>2
    <3>. QED
      BY <3>2, <3>3
  <2>2. stage' = "page" /\ (~crawler'.atOnce => batch' = {})
    BY <1>1
  <2>. QED
    BY <2>1, <2>2 DEF NothingLost
<1>. QED
  BY <1>4, <1>8, <1>9, <1>10, ReadsSettled

\* Something of the open page is dropped: the run says so, or has failed.
Drops ==
    /\ stage = "page" /\ upset' = TRUE /\ left' \subseteq left
    /\ UNCHANGED <<page, noted, gathered, answered, shown,
                   crawler, held, verdict, stored, own, jobs, published, tries>>
    /\ \/ stage' = "page" /\ batch' = batch
       \/ left' = {} /\ batch' = {} /\ stage' \in {"pages", "failing"}

LEMMA DropsKeeps == ASSUME LegacyInv, Drops, soft' \in BOOLEAN PROVE LegacyInv'
<1>1. LegacyTypeOK /\ AnsweredSoFar /\ NothingLost
  BY DEF LegacyInv
<1>2. Reads
  BY DEF Drops, Reads, Reading
<1>3. /\ page' \in 0..crawler.pages /\ (left \cup batch \cup gathered)' \subseteq shown'
      /\ shown' \subseteq Links /\ noted' \subseteq Identities
      /\ {soft, upset, answered}' \subseteq BOOLEAN
  BY <1>1 DEF LegacyTypeOK, Drops
<1>4. AnsweredSoFar'
  BY <1>1 DEF AnsweredSoFar, Reading, Drops
<1>5. NothingLost'
  BY <1>1 DEF NothingLost, Reading, Drops
<1>. QED
  BY <1>2, <1>3, <1>4, <1>5, ReadsSettled

LEMMA SkipDrops ==
    ASSUME NEW l, stage = "page", SkipLink(l) \/ LeavePage,
           UNCHANGED <<page, noted, gathered, answered, shown, outcomeVars>>
    PROVE  Drops
BY DEF SkipLink, LeavePage, Drops, outcomeVars

LEMMA BrokenKeeps == ASSUME LegacyInv, NEW l \in Links, BrokenLink(l) PROVE LegacyInv'
<1>1. stage = "page" /\ (SkipLink(l) \/ LeavePage)
      /\ UNCHANGED <<page, noted, gathered, answered, shown, outcomeVars>> /\ soft' = soft
  BY DEF BrokenLink
<1>2. soft' \in BOOLEAN
  BY <1>1 DEF LegacyInv, LegacyTypeOK
<1>. QED
  BY <1>1, <1>2, SkipDrops, DropsKeeps

LEMMA SwallowedKeeps == ASSUME LegacyInv, SoftLimitSwallowed PROVE LegacyInv'
<1>1. LegacyTypeOK /\ AnsweredSoFar /\ NothingLost /\ soft' = TRUE
  BY DEF LegacyInv, SoftLimitSwallowed, Strike
<1>2. CASE stage = "page"
  <2>1. (\E l \in left : SkipLink(l)) \/ LeavePage
    BY <1>2 DEF SoftLimitSwallowed
  <2>2. UNCHANGED <<page, noted, gathered, answered, shown, outcomeVars>>
    BY <1>2 DEF SoftLimitSwallowed
  <2>3. Drops
    BY <1>2, <2>1, <2>2, SkipDrops
  <2>. QED
    BY <1>1, <2>3, DropsKeeps
<1>3. CASE stage # "page"
  <2>1. /\ \/ /\ stage = "pages" /\ page < crawler.pages /\ crawler.guarded /\ page' = page + 1
           \/ /\ stage = "details" /\ page' = page
        /\ UNCHANGED <<stage, left, batch, noted, gathered, upset, answered, shown, crawler,
                       held, verdict, stored, own, jobs, published, tries>>
    BY <1>3 DEF SoftLimitSwallowed, outcomeVars
  <2>2. Reads
    BY <2>1 DEF Reads, Reading
  <2>3. page' \in 0..crawler.pages
    BY <2>1, <1>1, CrawlersAre DEF LegacyTypeOK
  <2>4. AnsweredSoFar'
    BY <2>1, <1>1 DEF AnsweredSoFar, Reading
  <2>5. NothingLost'
    BY <2>1, <1>1 DEF NothingLost, Reading
  <2>. QED
    BY <1>1, <2>1, <2>2, <2>3, <2>4, <2>5, ReadsSettled DEF LegacyTypeOK
<1>. QED
  BY <1>2, <1>3

LEMMA DoneKeeps == ASSUME LegacyInv, PageDone \/ PagesDone \/ ReadDetails PROVE LegacyInv'
<1>1. /\ UNCHANGED <<page, left, noted, soft, answered, shown, upset, crawler, held, verdict,
                     stored, own, jobs, published, tries>>
      /\ gathered' \cup batch' = gathered \cup batch
      /\ \/ stage = "page" /\ left = {} /\ stage' = "pages" /\ batch' = {}
         \/ /\ stage = "pages" /\ page = crawler.pages /\ stage' \in {"details", "writing"}
            /\ batch' = batch
         \/ stage = "details" /\ stage' = "writing" /\ batch' = batch
  BY DEF PageDone, PagesDone, ReadDetails, outcomeVars
<1>2. LegacyTypeOK /\ AnsweredSoFar /\ NothingLost
  BY DEF LegacyInv
<1>3. Reads
  BY <1>1 DEF Reads, Reading
<1>4. AnsweredSoFar'
  BY <1>1, <1>2 DEF AnsweredSoFar, Reading
<1>5. NothingLost'
  BY <1>1, <1>2 DEF NothingLost, Reading
<1>. QED
  BY <1>1, <1>2, <1>3, <1>4, <1>5, ReadsSettled DEF LegacyTypeOK

\* A run ends, or fails first, and leaves what is stored.
Ends ==
    /\ stage' \in {"failing", "ended", "dead"} /\ ~Over
    /\ (left \cup batch \cup gathered)' \subseteq left \cup batch \cup gathered
    /\ noted' \subseteq noted
    /\ soft' \in BOOLEAN /\ held' \in {held, FALSE}
    /\ \/ verdict' = verdict
       \/ verdict = "running" /\ verdict' \in {"stale", "failed"} /\ held' = FALSE
    /\ UNCHANGED <<crawler, page, answered, shown, upset, stored, own, jobs, tries>>
    /\ \/ published' = published
       \/ stage' = "ended" /\ published' \subseteq own

LEMMA EndsKeeps == ASSUME LegacyInv, Ends PROVE LegacyInv'
<1>1. LegacyTypeOK /\ LegacyRunsSound /\ ClaimUntilVerdict /\ AnsweredSoFar
  BY DEF LegacyInv
<1>2. LegacyTypeOK'
  BY <1>1 DEF LegacyTypeOK, Ends
<1>3. LegacyRunsSound'
  <2>1. Good' <=> Good
    BY DEF Ends, Good
  <2>2. AllOrNothing' /\ OneJobEach' /\ OutageIsNoQuiet'
    BY <1>1, <2>1 DEF LegacyRunsSound, AllOrNothing, OneJobEach, OutageIsNoQuiet, SameToDatabase, Ends
  <2>3. NothingOverlooked'
    BY <1>1, <2>1 DEF LegacyRunsSound, NothingOverlooked, Known, SameToDatabase, Ends
  <2>. QED
    BY <2>2, <2>3 DEF LegacyRunsSound
<1>4. ClaimUntilVerdict'
  <2>1. held' => verdict' = "running"
    BY <1>1 DEF ClaimUntilVerdict, Ends
  <2>2. ~Over' => published' = {}
    BY <1>1 DEF ClaimUntilVerdict, Ends, Over
  <2>. QED
    BY <2>1, <2>2 DEF ClaimUntilVerdict, Ends
<1>5. AnsweredSoFar'
  BY <1>1 DEF AnsweredSoFar, Ends, Reading
<1>6. NothingLost'
  BY DEF NothingLost, Ends, Reading
<1>. QED
  BY <1>2, <1>3, <1>4, <1>5, <1>6 DEF LegacyInv

LEMMA EndsAre ==
    ASSUME LegacyInv,
           \/ NotAccepted \/ FindsClaimLost \/ RecordFailure \/ PublishJobs
           \/ SoftLimitFails \/ SoftLimitLate \/ Killed
    PROVE  Ends
<1>1. soft \in BOOLEAN /\ held \in BOOLEAN /\ (held => verdict = "running")
  BY DEF LegacyInv, LegacyTypeOK, ClaimUntilVerdict
<1>2. CASE NotAccepted
  BY <1>1, <1>2 DEF NotAccepted, readingVars, Ends, Over
<1>3. CASE FindsClaimLost
  BY <1>1, <1>3 DEF FindsClaimLost, readingVars, Ends, Over
<1>4. CASE RecordFailure
  BY <1>1, <1>4 DEF RecordFailure, readingVars, Ends, Over
<1>5. CASE PublishJobs
  BY <1>1, <1>5 DEF PublishJobs, readingVars, Ends, Over
<1>6. CASE SoftLimitFails \/ SoftLimitLate
  BY <1>1, <1>6 DEF SoftLimitFails, SoftLimitLate, Strike, readingVars, Ends, Over
<1>7. CASE Killed
  BY <1>1, <1>7 DEF Killed, outcomeVars, Ends
<1>. QED
  BY <1>2, <1>3, <1>4, <1>5, <1>6, <1>7

LEMMA StoreKeeps == ASSUME LegacyAssumption, LegacyInv, Store PROVE LegacyInv'
<1>1. LegacyTypeOK /\ LegacyRunsSound /\ ClaimUntilVerdict /\ AnsweredSoFar /\ NothingLost
  BY DEF LegacyInv
<1>2. /\ stage = "writing" /\ Accepted /\ held /\ held' = FALSE /\ stage' = "publishing"
      /\ UNCHANGED <<crawler, page, left, batch, noted, gathered, answered, shown, upset,
                     tries, soft, published>>
  BY DEF Store, readingVars
<1>3. PICK new \in Inserts :
        /\ own' = new /\ stored' = stored \cup new
        /\ jobs' = [i \in Identities |-> IF i \in new THEN jobs[i] + 1 ELSE jobs[i]]
        /\ verdict' = IF new = {} THEN "no_change" ELSE "success"
  BY DEF Store
<1>4. /\ new \subseteq {l.id : l \in gathered}
      /\ \A i \in new : ~Known(i, stored)
      /\ \A i, j \in new : SameToDatabase(i, j) => i = j
      /\ \A l \in gathered : Known(l.id, stored \cup new)
  BY <1>3 DEF Inserts
<1>5. new \subseteq Identities /\ stored \subseteq Identities
  BY <1>1, <1>4 DEF LegacyTypeOK, LegacyAssumption
<1>6. \A i \in new : \A j \in stored : ~SameToDatabase(i, j) /\ ~SameToDatabase(j, i)
  BY <1>4 DEF Known, SameToDatabase
<1>7. \A i \in new : i \notin stored /\ jobs[i] = 0
  BY <1>1, <1>5, <1>6 DEF LegacyRunsSound, OneJobEach, SameToDatabase
<1>8. OneJobEach'
  <2>1. \A i \in Identities : jobs'[i] = IF i \in stored' THEN 1 ELSE 0
    BY <1>1, <1>3, <1>7 DEF LegacyRunsSound, OneJobEach
  <2>2. \A i, j \in stored' : SameToDatabase(i, j) => i = j
    BY <1>1, <1>3, <1>4, <1>6 DEF LegacyRunsSound, OneJobEach
  <2>. QED
    BY <2>1, <2>2 DEF OneJobEach, SameToDatabase
<1>9. published = {}
  BY <1>1, <1>2 DEF ClaimUntilVerdict, Over
<1>10. LegacyTypeOK'
  <2>1. jobs' \in [Identities -> 0..1]
    <3>1. \A i \in Identities : (IF i \in new THEN jobs[i] + 1 ELSE jobs[i]) \in 0..1
      BY <1>1, <1>7 DEF LegacyTypeOK
    <3>. QED
      BY <1>3, <3>1, Zenon
  <2>2. (noted \cup stored)' \subseteq Identities /\ own' \subseteq stored' /\ published' \subseteq own'
    BY <1>1, <1>2, <1>3, <1>5, <1>9 DEF LegacyTypeOK
  <2>3. verdict' \in {"success", "no_change"}
    BY <1>3
  <2>. QED
    BY <1>1, <1>2, <2>1, <2>2, <2>3 DEF LegacyTypeOK
<1>11. answered
  <2>1. gathered # {} \/ (crawler.provesEmpty /\ shown = {})
    BY <1>2 DEF Accepted, ProvenEmpty
  <2>2. gathered # {} => shown # {}
    BY <1>1 DEF LegacyTypeOK
  <2>3. page > 0 /\ (crawler.provesEmpty => ~crawler.guarded)
    BY <1>1, <1>2, CrawlersAre DEF AnsweredSoFar, LegacyTypeOK
  <2>. QED
    BY <1>1, <1>2, <2>1, <2>2, <2>3 DEF AnsweredSoFar, Reading
<1>12. NothingOverlooked'
  <2>1. ASSUME ~upset, NEW l \in shown, l.kind = "fine" PROVE Known(l.id, stored \cup new)
    <3>1. left = {} /\ batch = {} /\ Reading
      BY <1>1, <1>2 DEF NothingLost, Reading
    <3>2. \E g \in gathered : g.id = l.id
      BY <1>1, <2>1, <3>1 DEF NothingLost
    <3>. QED
      BY <1>4, <3>2
  <2>. QED
    BY <1>2, <1>3, <2>1 DEF NothingOverlooked, Known, SameToDatabase
<1>13. AllOrNothing' /\ OutageIsNoQuiet'
  BY <1>2, <1>3, <1>11 DEF AllOrNothing, OutageIsNoQuiet
<1>14. ClaimUntilVerdict'
  BY <1>2, <1>9 DEF ClaimUntilVerdict
<1>15. AnsweredSoFar' /\ NothingLost'
  BY <1>2, <1>11 DEF AnsweredSoFar, NothingLost, Reading
<1>. QED
  BY <1>8, <1>10, <1>12, <1>13, <1>14, <1>15 DEF LegacyInv, LegacyRunsSound

LEMMA NextRunKeeps == ASSUME LegacyAssumption, LegacyInv, NextRun PROVE LegacyInv'
<1>1. LegacyTypeOK /\ LegacyRunsSound
  BY DEF LegacyInv
<1>2. /\ tries < MaxTries /\ tries' = tries + 1
      /\ stage' = "pages" /\ page' = 0 /\ left' = {} /\ batch' = {} /\ noted' = {} /\ gathered' = {}
      /\ soft' = FALSE /\ held' = TRUE /\ verdict' = "running" /\ own' = {} /\ published' = {}
      /\ answered' = FALSE /\ shown' = {} /\ upset' = FALSE
      /\ UNCHANGED <<crawler, stored, jobs>>
  BY DEF NextRun
<1>3. page' \in 0..crawler'.pages /\ tries' \in 1..MaxTries
  BY <1>1, <1>2, CrawlersAre DEF LegacyTypeOK, LegacyAssumption
<1>4. LegacyTypeOK'
  BY <1>1, <1>2, <1>3 DEF LegacyTypeOK
<1>5. LegacyRunsSound'
  BY <1>1, <1>2 DEF LegacyRunsSound, AllOrNothing, OutageIsNoQuiet, NothingOverlooked,
                    OneJobEach, Good, SameToDatabase
<1>6. ClaimUntilVerdict' /\ AnsweredSoFar' /\ NothingLost'
  BY <1>2, <1>3 DEF ClaimUntilVerdict, AnsweredSoFar, NothingLost, Good, Over, Reading
<1>. QED
  BY <1>4, <1>5, <1>6 DEF LegacyInv

LEMMA LoseKeeps == ASSUME LegacyInv, LoseClaim PROVE LegacyInv'
<1>1. /\ held' = FALSE
      /\ UNCHANGED <<crawler, stage, page, left, batch, noted, gathered, soft, verdict,
                     stored, own, jobs, published, answered, shown, upset, tries>>
  BY DEF LoseClaim
<1>2. LegacyTypeOK' /\ ClaimUntilVerdict'
  BY <1>1 DEF LegacyInv, LegacyTypeOK, ClaimUntilVerdict, Good, Over
<1>3. LegacyRunsSound'
  BY <1>1 DEF LegacyInv, LegacyRunsSound, AllOrNothing, OutageIsNoQuiet, NothingOverlooked,
              OneJobEach, Good, Known, SameToDatabase
<1>4. AnsweredSoFar' /\ NothingLost'
  BY <1>1 DEF LegacyInv, AnsweredSoFar, NothingLost, Reading
<1>. QED
  BY <1>2, <1>3, <1>4 DEF LegacyInv

LEMMA LegacyStep == LegacyAssumption /\ LegacyInv /\ [LegacyNext]_legacyVars => LegacyInv'
<1> SUFFICES ASSUME LegacyAssumption, LegacyInv, [LegacyNext]_legacyVars PROVE LegacyInv'
  OBVIOUS
<1>1. CASE UNCHANGED legacyVars
  <2>1. LegacyTypeOK' /\ ClaimUntilVerdict'
    BY <1>1 DEF legacyVars, LegacyInv, LegacyTypeOK, ClaimUntilVerdict, Good, Over
  <2>2. LegacyRunsSound'
    BY <1>1 DEF legacyVars, LegacyInv, LegacyRunsSound, AllOrNothing, OutageIsNoQuiet,
                NothingOverlooked, OneJobEach, Good, Known, SameToDatabase
  <2>3. AnsweredSoFar' /\ NothingLost'
    BY <1>1 DEF legacyVars, LegacyInv, AnsweredSoFar, NothingLost, Reading
  <2>. QED
    BY <2>1, <2>2, <2>3 DEF LegacyInv
<1>. QED
  BY <1>1, NextRunKeeps, LoseKeeps, OpensKeeps, RefusedKeeps, DoneKeeps, TakeKeeps, BrokenKeeps,
     StoreKeeps, SwallowedKeeps, EndsAre, EndsKeeps
  DEF LegacyNext

LEMMA LegacyBeside == [ContentNext]_contentVars => [LegacyNext]_legacyVars
BY DEF ContentNext, contentVars

\* Whatever fails on the pages of a legacy crawler, whatever limit strikes and
\* whoever takes its claim: its run stores all or nothing, an outage is not
\* recorded as a quiet source, a good run has overlooked nothing it did not
\* leave out on the way, and each article has one job (base.py, sources/).
THEOREM LegacySound == ContentSpec => []LegacyRunsSound
<1>1. ContentInit => LegacyInv
  BY LegacyInitially, LegacyAssumption DEF ContentInit
<1>2. LegacyInv /\ [ContentNext]_contentVars => LegacyInv'
  BY LegacyBeside, LegacyStep, LegacyAssumption
<1>3. LegacyInv => LegacyRunsSound
  BY DEF LegacyInv
<1>. QED
  BY <1>1, <1>2, <1>3, PTL DEF ContentSpec

----------------------------------------------------------------------------
\* The daily mails keep their invariant.

Runs == [stage: Stages, todo: SUBSET Readers, sees: View]

LEMMA DigestInitially == DigestAssumption /\ DigestInit => DigestInv
<1> SUFFICES ASSUME DigestAssumption, DigestInit PROVE DigestInv
  OBVIOUS
<1>1. Window \in Nat /\ MaxUpsets \in Nat /\ MaxSends \in Nat
  BY DEF DigestAssumption
<1>2. reader \in [Readers -> Reader]
  BY DEF DigestInit, Reader
<1>3. looks \in [Readers -> [Keywords -> Looks]]
  BY DEF DigestInit, Looks
<1>4. since \in [Readers -> 0..Window + 1] /\ sends \in 0..MaxSends /\ upsets \in 0..MaxUpsets
      /\ unlogged \in Nat
  BY <1>1 DEF DigestInit
<1>5. DigestTypeOK
  BY <1>2, <1>3, <1>4 DEF DigestInit, DigestTypeOK
<1>6. YoungerThanTheTurn
  BY DEF DigestInit, YoungerThanTheTurn
<1>7. LogsAccounted
  BY DEF DigestInit, LogsAccounted, DeletedUnnoticed, NoRun
<1>8. SeenIsStamped
  BY DEF DigestInit, SeenIsStamped
<1>. QED
  BY <1>5, <1>6, <1>7, <1>8 DEF DigestInv

\* A run has a view, and what it sees now is one.
LEMMA RunIs ==
    ASSUME DigestTypeOK
    PROVE  /\ run = NoRun \/ (run \in Runs /\ run # NoRun)
           /\ Now \in View
           /\ NoRun.todo = {} /\ \A r \in Runs : r # NoRun
<1>1. Now \in View
  BY DEF DigestTypeOK, Now, View
<1>2. ASSUME NEW r \in Runs PROVE r # NoRun
  BY DEF Runs, Stages, NoRun
<1>3. NoRun.todo = {}
  BY DEF NoRun
<1>. QED
  BY <1>1, <1>2, <1>3 DEF DigestTypeOK, Runs

\* A mail without a log is accounted for when something upset the run, or when
\* the run no longer goes by a user who was deleted.
LEMMA LogsKept ==
    ASSUME DigestInv, unlogged' = unlogged, upsets' \in Nat,
           \/ upsets' = upsets + 1
           \/ upsets' = upsets /\ (DeletedUnnoticed' => DeletedUnnoticed)
    PROVE  LogsAccounted'
<1>1. unlogged \in Nat /\ upsets \in Nat /\ LogsAccounted
  BY DEF DigestInv, DigestTypeOK
<1>. QED
  BY <1>1 DEF LogsAccounted

\* A step that concerns no run.
LEMMA NoRunKeeps ==
    ASSUME DigestInv, UNCHANGED <<run, inbox, unlogged>>,
           reader' \in [Readers -> Reader], looks' \in [Readers -> [Keywords -> Looks]],
           age' \in [Stories -> {Unseen} \cup Ages], sends' \in 0..MaxSends,
           visible \subseteq visible', visible' \subseteq Stamped',
           since' \in [Readers -> 0..Window + 1], passed' \in SUBSET (Readers \X Stories),
           excused' \in SUBSET Readers,
           upsets' \in 0..MaxUpsets, YoungerThanTheTurn',
           upsets' = upsets + 1 \/ (upsets' = upsets /\ reader' = reader)
    PROVE  DigestInv'
<1>0. visible' \in SUBSET Stories
  BY DEF Stamped
<1>1. DigestTypeOK'
  BY <1>0 DEF DigestInv, DigestTypeOK
<1>2. upsets' \in Nat /\ (reader' = reader => DeletedUnnoticed' = DeletedUnnoticed)
  BY DEF DeletedUnnoticed
<1>3. LogsAccounted'
  BY <1>2, LogsKept
<1>4. SeenIsStamped'
  BY DEF DigestInv, SeenIsStamped
<1>. QED
  BY <1>1, <1>3, <1>4 DEF DigestInv

LEMMA ElapseKeeps == ASSUME DigestAssumption, DigestInv, Elapse PROVE DigestInv'
<1>1. /\ age' = [s \in Stories |-> Older(age[s])] /\ since' = [u \in Readers |-> Older(since[u])]
      /\ UNCHANGED <<reader, looks, visible, sends, run, inbox, unlogged, passed, excused, upsets>>
  BY DEF Elapse
<1>2. Window \in Nat /\ DigestTypeOK /\ YoungerThanTheTurn
  BY DEF DigestAssumption, DigestInv
<1>3. \A n \in Ages : Older(n) \in Ages /\ Older(n) # Unseen /\ n <= Older(n)
  BY <1>2 DEF Older, Unseen, Ages
<1>4. Older(Unseen) = Unseen
  BY DEF Older
<1>5. \A n, m \in Ages : n <= m => Older(n) <= Older(m)
  BY <1>2 DEF Older, Unseen, Ages
<1>9. \A n \in 0..Window + 1 : n \in Ages /\ Older(n) \in 0..Window + 1
  BY <1>2 DEF Ages, Older, Unseen
<1>. HIDE DEF Older, Ages
<1>6. age' \in [Stories -> {Unseen} \cup Ages]
  <2>1. \A s \in Stories : age[s] = Unseen \/ age[s] \in Ages
    BY <1>2 DEF DigestTypeOK
  <2>2. \A s \in Stories : Older(age[s]) \in {Unseen} \cup Ages
    BY <2>1, <1>3, <1>4, Zenon
  <2>. QED
    BY <1>1, <2>2, Zenon
<1>7. since' \in [Readers -> 0..Window + 1]
  <2>1. \A u \in Readers : Older(since[u]) \in 0..Window + 1
    BY <1>2, <1>9, Zenon DEF DigestTypeOK
  <2>. QED
    BY <1>1, <2>1, Zenon
<1>8. YoungerThanTheTurn'
  <2> SUFFICES ASSUME NEW u \in Readers, NEW s \in Stories, age'[s] # Unseen, s \notin inbox[u],
                      u \notin excused, <<u, s>> \notin passed
               PROVE  age'[s] <= since'[u]
    BY <1>1 DEF YoungerThanTheTurn
  <2>1. age'[s] = Older(age[s]) /\ since'[u] = Older(since[u])
    BY <1>1
  <2>2. age[s] # Unseen
    BY <2>1, <1>4
  <2>3. age[s] \in Ages /\ since[u] \in 0..Window + 1 /\ age[s] <= since[u]
    BY <2>2, <1>2 DEF DigestTypeOK, YoungerThanTheTurn
  <2>. QED
    BY <2>1, <2>3, <1>5, <1>9
<1>10. visible \subseteq Stamped'
  <2>1. \A s \in Stories : age[s] \in Ages \/ age[s] = Unseen
    BY <1>2 DEF DigestTypeOK
  <2>2. \A s \in Stories : age[s] # Unseen => age'[s] # Unseen
    BY <2>1, <1>1, <1>3
  <2>. QED
    BY <2>2 DEF DigestInv, SeenIsStamped, Stamped
<1>. QED
  BY <1>1, <1>2, <1>6, <1>7, <1>8, <1>10, NoRunKeeps DEF DigestTypeOK

\* A story is stamped, can be seen, or is given up.
LEMMA CrawlKeeps ==
    ASSUME DigestAssumption, DigestInv, NEW s \in Stories, Flush(s) \/ Show(s) \/ RollBack(s)
    PROVE  DigestInv'
<1>1. UNCHANGED <<reader, looks, sends, run, inbox, unlogged, since, excused, upsets>>
  BY DEF Flush, Show, RollBack
<1>2. Window \in Nat /\ DigestTypeOK /\ YoungerThanTheTurn /\ SeenIsStamped
  BY DEF DigestAssumption, DigestInv
<1>3. CASE Flush(s)
  <2>1. age[s] = Unseen /\ visible' = visible
    BY <1>3 DEF Flush
  <2>2. PICK stamp \in -1..1 :
          /\ age' = [age EXCEPT ![s] = stamp]
          /\ passed' = passed \cup {<<u, s>> : u \in {v \in Readers : stamp > since[v]}}
    BY <1>3 DEF Flush
  <2>3. stamp \in Ages /\ stamp # Unseen
    BY <1>2 DEF Ages, Unseen, DigestAssumption
  <2>4. age' \in [Stories -> {Unseen} \cup Ages] /\ passed' \in SUBSET (Readers \X Stories)
    BY <2>2, <2>3, <1>2 DEF DigestTypeOK
  <2>5. ASSUME NEW u \in Readers, NEW x \in Stories, age'[x] # Unseen, x \notin inbox[u],
               u \notin excused, <<u, x>> \notin passed'
        PROVE  age'[x] <= since[u]
    <3>1. CASE x = s
      <4>1. age'[x] = stamp /\ since[u] \in 0..Window + 1
        BY <3>1, <2>2, <1>2 DEF DigestTypeOK
      <4>2. ~(stamp > since[u])
        BY <3>1, <2>2, <2>5
      <4>. QED
        BY <4>1, <4>2, <1>2
    <3>2. CASE x # s
      <4>1. age'[x] = age[x] /\ <<u, x>> \notin passed
        BY <3>2, <2>2, <2>5, <1>2 DEF DigestTypeOK
      <4>. QED
        BY <4>1, <2>5, <1>2 DEF YoungerThanTheTurn
    <3>. QED
      BY <3>1, <3>2
  <2>6. YoungerThanTheTurn'
    BY <2>5, <1>1 DEF YoungerThanTheTurn
  <2>7. visible' \subseteq Stamped'
    BY <2>1, <2>2, <2>3, <1>2 DEF SeenIsStamped, Stamped, DigestTypeOK
  <2>. QED
    BY <1>1, <1>2, <2>1, <2>4, <2>6, <2>7, NoRunKeeps DEF DigestTypeOK
<1>4. CASE Show(s)
  <2>1. s \in Stamped /\ visible' = visible \cup {s} /\ age' = age /\ passed' = passed
    BY <1>4 DEF Show
  <2>2. YoungerThanTheTurn'
    BY <2>1, <1>1, <1>2 DEF YoungerThanTheTurn
  <2>3. visible' \subseteq Stamped'
    BY <2>1, <1>2 DEF SeenIsStamped, Stamped
  <2>. QED
    BY <1>1, <1>2, <2>1, <2>2, <2>3, NoRunKeeps DEF DigestTypeOK
<1>5. CASE RollBack(s)
  <2>1. /\ s \notin visible /\ visible' = visible
        /\ age' = [age EXCEPT ![s] = Unseen] /\ passed' = {p \in passed : p[2] # s}
    BY <1>5 DEF RollBack
  <2>2. age' \in [Stories -> {Unseen} \cup Ages] /\ passed' \in SUBSET (Readers \X Stories)
    BY <2>1, <1>2 DEF DigestTypeOK
  <2>3. ASSUME NEW u \in Readers, NEW x \in Stories, age'[x] # Unseen, x \notin inbox[u],
               u \notin excused, <<u, x>> \notin passed'
        PROVE  age'[x] <= since[u]
    <3>1. x # s
      BY <2>1, <2>3, <1>2 DEF DigestTypeOK
    <3>2. age'[x] = age[x]
      BY <3>1, <2>1, <1>2 DEF DigestTypeOK
    <3>3. <<u, x>> \notin passed
      BY <3>1, <2>1, <2>3
    <3>. QED
      BY <3>2, <3>3, <2>3, <1>2 DEF YoungerThanTheTurn
  <2>4. YoungerThanTheTurn'
    BY <2>3, <1>1 DEF YoungerThanTheTurn
  <2>5. visible' \subseteq Stamped'
    BY <2>1, <1>2 DEF SeenIsStamped, Stamped, DigestTypeOK
  <2>. QED
    BY <1>1, <1>2, <2>1, <2>2, <2>4, <2>5, NoRunKeeps DEF DigestTypeOK
<1>. QED
  BY <1>3, <1>4, <1>5

LEMMA SendKeeps == ASSUME DigestAssumption, DigestInv, Send PROVE DigestInv'
<1>1. sends' \in 0..MaxSends
      /\ UNCHANGED <<reader, looks, age, visible, run, inbox, unlogged, since, passed, excused, upsets>>
  BY DEF Send, DigestAssumption, DigestInv, DigestTypeOK
<1>2. YoungerThanTheTurn'
  BY <1>1 DEF DigestInv, YoungerThanTheTurn
<1>3. visible' \subseteq Stamped'
  BY <1>1 DEF DigestInv, SeenIsStamped, Stamped
<1>. QED
  BY <1>1, <1>2, <1>3, NoRunKeeps DEF DigestInv, DigestTypeOK

\* Users and administrators upset what a run goes by.
LEMMA UsersKeep ==
    ASSUME DigestAssumption, DigestInv, NEW u \in Readers,
           \/ \E active, daily \in BOOLEAN : SetReader(u, active, daily)
           \/ DeleteReader(u)
           \/ \E k \in Keywords, how \in Looks : Look(u, k, how)
    PROVE  DigestInv'
<1>1. DigestTypeOK /\ YoungerThanTheTurn /\ MaxUpsets \in Nat
  BY DEF DigestInv, DigestAssumption
<1>2. upsets < MaxUpsets /\ upsets' = upsets + 1
      /\ UNCHANGED <<age, visible, sends, run, inbox, unlogged, since, passed>>
      /\ excused' \in {excused, excused \cup {u}}
  BY DEF SetReader, DeleteReader, Look
<1>3. upsets' \in 0..MaxUpsets
  BY <1>1, <1>2 DEF DigestTypeOK
<1>4. reader' \in [Readers -> Reader]
  <2>1. reader[u] \in Reader
    BY <1>1 DEF DigestTypeOK
  <2>2. CASE \E active, daily \in BOOLEAN : SetReader(u, active, daily)
    <3>1. PICK active, daily \in BOOLEAN :
            reader' = [reader EXCEPT ![u].active = active, ![u].daily = daily]
      BY <2>2 DEF SetReader
    <3>. QED
      BY <3>1, <2>1, <1>1 DEF DigestTypeOK, Reader
  <2>3. CASE DeleteReader(u)
    <3>1. reader' = [reader EXCEPT ![u].there = FALSE]
      BY <2>3 DEF DeleteReader
    <3>. QED
      BY <3>1, <2>1, <1>1 DEF DigestTypeOK, Reader
  <2>4. CASE reader' = reader
    BY <2>4, <1>1 DEF DigestTypeOK
  <2>. QED
    BY <2>2, <2>3, <2>4 DEF Look
<1>5. looks' \in [Readers -> [Keywords -> Looks]]
  <2>1. CASE \E k \in Keywords, how \in Looks : Look(u, k, how)
    <3>1. PICK k \in Keywords, how \in Looks : looks' = [looks EXCEPT ![u][k] = how]
      BY <2>1 DEF Look
    <3>. QED
      BY <3>1, <1>1 DEF DigestTypeOK
  <2>2. CASE looks' = [looks EXCEPT ![u] = [k \in Keywords |-> "none"]]
    BY <2>2, <1>1 DEF DigestTypeOK, Looks
  <2>3. CASE looks' = looks
    BY <2>3, <1>1 DEF DigestTypeOK
  <2>. QED
    BY <2>1, <2>2, <2>3 DEF SetReader, DeleteReader
<1>6. YoungerThanTheTurn'
  BY <1>1, <1>2 DEF YoungerThanTheTurn
<1>7. visible' \subseteq Stamped'
  BY <1>2 DEF DigestInv, SeenIsStamped, Stamped
<1>8. passed' \in SUBSET (Readers \X Stories) /\ since' \in [Readers -> 0..Window + 1]
      /\ age' \in [Stories -> {Unseen} \cup Ages] /\ sends' \in 0..MaxSends /\ excused' \in SUBSET Readers
  BY <1>1, <1>2 DEF DigestTypeOK
<1>. QED
  BY <1>2, <1>3, <1>4, <1>5, <1>6, <1>7, <1>8, NoRunKeeps

LEMMA StartsKeep ==
    ASSUME DigestAssumption, DigestInv, Start \/ StartAlerts \/ End PROVE DigestInv'
<1>1. DigestTypeOK /\ YoungerThanTheTurn /\ SeenIsStamped /\ MaxSends \in Nat
  BY DEF DigestInv, DigestAssumption
<1>2. UNCHANGED <<reader, looks, age, visible, inbox, unlogged, since, passed, excused, upsets>>
  BY DEF Start, StartAlerts, End
<1>3. sends' \in 0..MaxSends
  BY <1>1 DEF DigestTypeOK, Start, StartAlerts, End
<1>4. \/ run' = NoRun
      \/ run' \in Runs /\ (run'.sees = Now \/ (run # NoRun /\ run'.sees = run.sees))
  <2>1. CASE Start
    <3>1. run' = [stage |-> "digests", todo |-> {u \in ActiveReaders(Now) : reader[u].daily}, sees |-> Now]
      BY <2>1 DEF Start
    <3>2. {u \in ActiveReaders(Now) : reader[u].daily} \in SUBSET Readers /\ "digests" \in Stages
      BY DEF ActiveReaders, Stages
    <3>3. Now \in View
      BY <1>1, RunIs
    <3>. HIDE DEF Now, View
    <3>. QED
      BY <3>1, <3>2, <3>3 DEF Runs
  <2>2. CASE StartAlerts
    <3>1. run \in Runs /\ run # NoRun
          /\ run' = [run EXCEPT !.stage = "alerts", !.todo = ActiveReaders(run.sees)]
      BY <2>2, <1>1, RunIs DEF StartAlerts, NoRun
    <3>2. ActiveReaders(run.sees) \in SUBSET Readers /\ "alerts" \in Stages
      BY DEF ActiveReaders, Stages
    <3>3. run' \in Runs /\ run'.sees = run.sees
      BY <3>1, <3>2 DEF Runs
    <3>. QED
      BY <3>1, <3>3
  <2>3. CASE End
    BY <2>3 DEF End
  <2>. QED
    BY <2>1, <2>2, <2>3
<1>5. DigestTypeOK'
  BY <1>1, <1>2, <1>3, <1>4 DEF DigestTypeOK, Runs
<1>6. DeletedUnnoticed' => DeletedUnnoticed
  BY <1>2, <1>4 DEF DeletedUnnoticed, Now
<1>7. upsets' = upsets /\ upsets' \in Nat /\ unlogged' = unlogged
  BY <1>1, <1>2 DEF DigestTypeOK
<1>8. LogsAccounted'
  BY <1>6, <1>7, LogsKept
<1>9. YoungerThanTheTurn'
  BY <1>1, <1>2 DEF YoungerThanTheTurn
<1>10. SeenIsStamped'
  BY <1>1, <1>2, <1>4 DEF SeenIsStamped, Stamped, Now
<1>. QED
  BY <1>5, <1>8, <1>9, <1>10 DEF DigestInv

LEMMA RecentAre == ASSUME NEW u PROVE Recent \subseteq run.sees.visible /\ Content(u) \subseteq run.sees.visible
BY DEF Recent, Matches, Content

\* A turn: the user has what is recent, or is excused.
Served(u) ==
    /\ u \in run.todo /\ u \in Readers
    /\ \/ Reaches(u) /\ Taken(u, TRUE)
       \/ UNCHANGED inbox /\ Taken(u, FALSE)
    /\ UNCHANGED <<reader, looks, age, visible, sends, unlogged>>

LEMMA ServedKeeps ==
    ASSUME DigestAssumption, DigestInv, NEW u \in Readers, Served(u), run \in Runs,
           run' \in Runs, run'.sees \in {run.sees, Now},
           upsets' \in 0..MaxUpsets, upsets' = upsets \/ upsets' = upsets + 1
    PROVE  DigestInv'
<1>1. DigestTypeOK /\ YoungerThanTheTurn /\ SeenIsStamped /\ Window \in Nat /\ MaxUpsets \in Nat
  BY DEF DigestInv, DigestAssumption
<1>2. run # NoRun /\ Recent \subseteq run.sees.visible /\ run.sees.visible \subseteq visible
      /\ visible \subseteq Stories
  BY <1>1, RunIs, RecentAre DEF SeenIsStamped, DigestTypeOK
<1>3. since[u] \in 0..Window + 1 /\ 0 \in 0..Window + 1 /\ inbox[u] \in SUBSET Stories
  BY <1>1 DEF DigestTypeOK
<1>4. UNCHANGED <<reader, looks, age, visible, sends, unlogged>>
  BY DEF Served
<1>5. /\ inbox' \in {inbox, [inbox EXCEPT ![u] = @ \cup Recent]}
      /\ \/ since' = since /\ excused' = excused /\ passed' = passed
         \/ /\ since' = [since EXCEPT ![u] = 0]
            /\ passed' = passed \cup {<<u, s>> : s \in Stamped \ run.sees.visible}
            /\ \/ excused' = excused \cup {u}
               \/ /\ excused' = excused /\ since[u] <= Window
                  /\ inbox' = [inbox EXCEPT ![u] = @ \cup Recent]
  <2>1. CASE run.stage = "digests"
    BY <2>1 DEF Served, Reaches, Taken, Content
  <2>2. CASE run.stage # "digests"
    BY <2>2 DEF Served, Reaches, Taken, Content
  <2>. QED
    BY <2>1, <2>2
<1>6. inbox' \in [Readers -> SUBSET Stories] /\ since' \in [Readers -> 0..Window + 1]
      /\ excused' \in SUBSET Readers /\ passed' \in SUBSET (Readers \X Stories)
  <2>1. inbox' \in [Readers -> SUBSET Stories]
    BY <1>1, <1>2, <1>3, <1>5 DEF DigestTypeOK
  <2>2. since' \in [Readers -> 0..Window + 1]
    BY <1>1, <1>3, <1>5 DEF DigestTypeOK
  <2>3. excused' \in SUBSET Readers
    BY <1>1, <1>5 DEF DigestTypeOK
  <2>4. passed' \in SUBSET (Readers \X Stories)
    BY <1>1, <1>5 DEF DigestTypeOK, Stamped
  <2>. QED
    BY <2>1, <2>2, <2>3, <2>4
<1>7. DigestTypeOK'
  BY <1>1, <1>4, <1>6 DEF DigestTypeOK, Runs
<1>8. ASSUME NEW v \in Readers, NEW s \in Stories, age[s] # Unseen, s \notin inbox'[v],
             v \notin excused', <<v, s>> \notin passed'
      PROVE  age[s] <= since'[v]
  <2>1. s \notin inbox[v] /\ v \notin excused /\ <<v, s>> \notin passed
    BY <1>5, <1>8, <1>1 DEF DigestTypeOK
  <2>2. age[s] <= since[v] /\ age[s] \in Ages
    BY <2>1, <1>8, <1>1 DEF YoungerThanTheTurn, DigestTypeOK
  <2>3. CASE since'[v] = since[v]
    BY <2>2, <2>3
  <2>4. CASE since'[v] # since[v]
    <3>1. v = u /\ since' = [since EXCEPT ![u] = 0]
          /\ passed' = passed \cup {<<u, x>> : x \in Stamped \ run.sees.visible}
      BY <2>4, <1>5, <1>1 DEF DigestTypeOK
    <3>2. since[u] <= Window /\ inbox' = [inbox EXCEPT ![u] = @ \cup Recent]
      BY <2>4, <3>1, <1>5, <1>8
    <3>3. s \notin Recent
      BY <3>1, <3>2, <1>8, <1>1 DEF DigestTypeOK
    <3>4. s \in run.sees.visible
      BY <3>1, <1>8 DEF Stamped
    <3>5. ~(age[s] <= Window)
      BY <3>3, <3>4 DEF Recent
    <3>. QED
      BY <3>1, <3>2, <3>5, <2>2, <1>1, <1>3 DEF Ages
  <2>. QED
    BY <2>3, <2>4
<1>9. YoungerThanTheTurn'
  BY <1>4, <1>8 DEF YoungerThanTheTurn
<1>10. DeletedUnnoticed' => DeletedUnnoticed
  BY <1>2, <1>4 DEF DeletedUnnoticed, Now
<1>11. upsets' \in Nat /\ unlogged' = unlogged
  BY <1>1, <1>4
<1>12. LogsAccounted'
  BY <1>10, <1>11, LogsKept
<1>13. SeenIsStamped'
  <2>1. \A v \in Readers : inbox'[v] \subseteq visible
    BY <1>1, <1>2, <1>5 DEF SeenIsStamped, DigestTypeOK
  <2>2. run'.sees.visible \subseteq visible
    BY <1>2 DEF Now
  <2>. QED
    BY <1>1, <1>4, <2>1, <2>2 DEF SeenIsStamped, Stamped
<1>. QED
  BY <1>7, <1>9, <1>12, <1>13 DEF DigestInv

LEMMA InTheRun == ASSUME DigestTypeOK, NEW u, u \in run.todo PROVE run \in Runs /\ u \in Readers
BY DEF DigestTypeOK, NoRun, Runs

LEMMA TurnKeeps ==
    ASSUME DigestAssumption, DigestInv, NEW u \in Readers, Turn(u) \/ MailFails(u) PROVE DigestInv'
<1>1. DigestTypeOK /\ u \in run.todo /\ run \in Runs /\ Now \in View
  BY InTheRun, RunIs DEF DigestInv, Turn, MailFails
<1>2. Served(u)
  BY <1>1 DEF Turn, MailFails, Served
<1>3. run' = [run EXCEPT !.todo = @ \ {u}] \/ run' = [run EXCEPT !.todo = @ \ {u}, !.sees = Now]
  <2>1. CASE run' = [run EXCEPT !.todo = @ \ {u}, !.sees = IF Content(u) = {} THEN @ ELSE Now]
    BY <2>1, <1>1 DEF Runs
  <2>. QED
    BY <2>1 DEF Turn, MailFails
<1>. HIDE DEF Now, View
<1>5. run' \in Runs /\ run'.sees \in {run.sees, Now}
  BY <1>1, <1>3 DEF Runs
<1>4. upsets' \in 0..MaxUpsets /\ (upsets' = upsets \/ upsets' = upsets + 1)
  <2>1. upsets' = upsets \/ (upsets' = upsets + 1 /\ upsets < MaxUpsets)
    BY DEF Turn, MailFails
  <2>2. upsets \in 0..MaxUpsets /\ MaxUpsets \in Nat
    BY <1>1 DEF DigestTypeOK, DigestAssumption
  <2>. QED
    BY <2>1, <2>2
<1>. QED
  BY <1>1, <1>2, <1>5, <1>4, ServedKeeps

LEMMA BreaksKeep ==
    ASSUME DigestAssumption, DigestInv, RunDies \/ \E u \in Readers : LogFails(u) \/ ReaderGone(u)
    PROVE  DigestInv'
<1>1. DigestTypeOK /\ YoungerThanTheTurn /\ LogsAccounted /\ SeenIsStamped
      /\ Window \in Nat /\ MaxUpsets \in Nat /\ upsets \in Nat /\ unlogged \in Nat
  BY DEF DigestInv, DigestAssumption, DigestTypeOK
<1>2. /\ run' = NoRun /\ since' = since /\ passed' = passed /\ excused' \in {excused, excused \cup run.todo}
      /\ UNCHANGED <<reader, looks, age, visible, sends>>
  BY DEF LogFails, ReaderGone, RunDies, Broken
<1>3. /\ \A v \in Readers : inbox[v] \subseteq inbox'[v] /\ inbox'[v] \subseteq visible
      /\ inbox' \in [Readers -> SUBSET Stories]
  <2>1. CASE inbox' = inbox
    BY <2>1, <1>1 DEF DigestTypeOK, SeenIsStamped
  <2>2. ASSUME NEW u \in Readers, LogFails(u)
        PROVE  /\ \A v \in Readers : inbox[v] \subseteq inbox'[v] /\ inbox'[v] \subseteq visible
               /\ inbox' \in [Readers -> SUBSET Stories]
    <3>1. run \in Runs
      BY <2>2, <1>1, InTheRun DEF LogFails
    <3>2. Content(u) \subseteq visible /\ visible \subseteq Stories
      BY <3>1, <1>1, RunIs, RecentAre DEF SeenIsStamped, DigestTypeOK
    <3>3. inbox' \in {inbox, [inbox EXCEPT ![u] = @ \cup Content(u)]}
      BY <2>2 DEF LogFails, Reaches
    <3>4. PICK sent \in SUBSET visible : inbox' \in {inbox, [inbox EXCEPT ![u] = @ \cup sent]}
      BY <3>2, <3>3
    <3>5. ASSUME NEW v \in Readers
          PROVE  inbox[v] \subseteq inbox'[v] /\ inbox'[v] \subseteq visible
      BY <3>4, <1>1 DEF DigestTypeOK, SeenIsStamped
    <3>6. inbox' \in [Readers -> SUBSET Stories]
      BY <3>2, <3>4, <1>1 DEF DigestTypeOK
    <3>. QED
      BY <3>5, <3>6
  <2>. QED
    BY <2>1, <2>2 DEF ReaderGone, RunDies
<1>4. /\ upsets' \in 0..MaxUpsets /\ unlogged' \in Nat
      /\ \/ unlogged' = unlogged /\ upsets' \in {upsets, upsets + 1}
         \/ unlogged' = unlogged + 1 /\ upsets' = upsets + 1
         \/ unlogged' = unlogged + 1 /\ upsets' = upsets /\ DeletedUnnoticed
  <2>1. ASSUME NEW u \in Readers, LogFails(u)
        PROVE  /\ upsets' \in 0..MaxUpsets /\ unlogged' \in Nat
               /\ \/ unlogged' = unlogged + 1 /\ upsets' = upsets + 1
                  \/ unlogged' = unlogged + 1 /\ upsets' = upsets /\ DeletedUnnoticed
    <3>1. run # NoRun
      BY <2>1, <1>1, InTheRun, RunIs DEF LogFails
    <3>. QED
      BY <2>1, <3>1, <1>1 DEF LogFails, Readable, DeletedUnnoticed, DigestTypeOK
  <2>2. CASE RunDies \/ \E u \in Readers : ReaderGone(u)
    BY <2>2, <1>1 DEF ReaderGone, RunDies, DigestTypeOK
  <2>. QED
    BY <2>1, <2>2
<1>5. run.todo \subseteq Readers
  BY <1>1 DEF DigestTypeOK, NoRun
<1>6. DigestTypeOK'
  BY <1>1, <1>2, <1>3, <1>4, <1>5 DEF DigestTypeOK
<1>7. YoungerThanTheTurn'
  BY <1>1, <1>2, <1>3 DEF YoungerThanTheTurn
<1>8. ~DeletedUnnoticed'
  BY <1>2 DEF DeletedUnnoticed
<1>9. LogsAccounted'
  <2>1. unlogged <= upsets /\ (DeletedUnnoticed => unlogged + 1 <= upsets)
    BY <1>1 DEF LogsAccounted
  <2>2. unlogged' <= upsets'
    BY <1>1, <1>4, <2>1
  <2>3. unlogged' + 0 <= upsets'
    <3>1. unlogged' \in Nat
      BY <1>4
    <3>. QED
      BY <3>1, <2>2
  <2>4. (IF DeletedUnnoticed THEN 1 ELSE 0)' = 0
    BY <1>8, Zenon
  <2>. QED
    BY <2>3, <2>4, Zenon DEF LogsAccounted
<1>10. SeenIsStamped'
  BY <1>1, <1>2, <1>3 DEF SeenIsStamped, Stamped
<1>. QED
  BY <1>6, <1>7, <1>9, <1>10 DEF DigestInv

LEMMA DigestStep == DigestAssumption /\ DigestInv /\ [DigestNext]_digestVars => DigestInv'
<1> SUFFICES ASSUME DigestAssumption, DigestInv, [DigestNext]_digestVars PROVE DigestInv'
  OBVIOUS
<1>1. CASE UNCHANGED digestVars
  BY <1>1 DEF digestVars, DigestInv, DigestTypeOK, YoungerThanTheTurn, SeenIsStamped, Stamped,
              LogsAccounted, DeletedUnnoticed
<1>. QED
  BY <1>1, ElapseKeeps, CrawlKeeps, SendKeeps, UsersKeep, StartsKeep, TurnKeeps, BreaksKeep
  DEF DigestNext

LEMMA DigestBeside == [ContentNext]_contentVars => [DigestNext]_digestVars
BY DEF ContentNext, contentVars

LEMMA DigestShows == DigestAssumption /\ DigestInv => MailsComplete
<1> SUFFICES ASSUME DigestAssumption, DigestInv PROVE MailsComplete
  OBVIOUS
<1>1. NothingMissed
  BY DEF DigestAssumption, DigestInv, DigestTypeOK, YoungerThanTheTurn, NothingMissed, Unseen
<1>2. unlogged \in Nat /\ upsets \in Nat /\ LogsAccounted
  BY DEF DigestInv, DigestTypeOK
<1>3. MailsLogged
  BY <1>2 DEF LogsAccounted, MailsLogged
<1>. QED
  BY <1>1, <1>3 DEF MailsComplete

\* A story only grows too old for a user's digests when his turns were more than
\* a day apart, one failed, his account was changed, or the story was stamped
\* before a turn that could not see it yet; and there are no more mails without a
\* log than failures and users deleted under a run (email/tasks.py, digest.py;
\* the stamp models/article.py:36, the commits crawlers/base.py).
THEOREM MailsKept == ContentSpec => []MailsComplete
<1>1. ContentInit => DigestInv
  BY DigestInitially, DigestAssumption DEF ContentInit
<1>2. DigestInv /\ [ContentNext]_contentVars => DigestInv'
  BY DigestBeside, DigestStep, DigestAssumption
<1>3. DigestInv => MailsComplete
  BY DigestShows, DigestAssumption
<1>. QED
  BY <1>1, <1>2, <1>3, PTL DEF ContentSpec

----------------------------------------------------------------------------
\* The evidence store keeps its invariant.

Saver == [step: SaverSteps, left: 0..Ttl, size: Sizes, key: 0..MaxSaves]

\* The image of a finite set is no larger.
LEMMA ImageSmaller ==
    ASSUME NEW S, IsFiniteSet(S), NEW g, NEW T, T = {g[x] : x \in S}, g = [x \in S |-> g[x]]
    PROVE  IsFiniteSet(T) /\ Cardinality(T) <= Cardinality(S)
<1>1. g \in Surjection(S, T)
  BY DEF Surjection
<1>. QED
  BY <1>1, FS_Surjection

\* What the fields of files and references are.
LEMMA FilesAre ==
    /\ \A f \in Files : f.key \in Nat /\ f.size \in Sizes /\ f.left \in 0..Ttl /\ f.whole \in BOOLEAN
    /\ \A r \in Refs : r.key \in Nat /\ r.size \in Sizes /\ r.left \in 0..Ttl
BY DEF Files, Refs

Rewritten(key, f) == IF f.key = key THEN [f EXCEPT !.left = Ttl, !.whole = TRUE] ELSE f

LEMMA RewrittenIs ==
    ASSUME EvidenceConstants, NEW key, NEW f \in Files
    PROVE  LET g == Rewritten(key, f) IN
           /\ g \in Files /\ g.key = f.key /\ g.size = f.size /\ g.left >= f.left
           /\ f.whole => g.whole
           /\ f.key = key => g.whole /\ g.left = Ttl
<1>1. Ttl \in 0..Ttl /\ f.left \in 0..Ttl /\ Ttl \in Nat
  BY FilesAre DEF EvidenceConstants
<1>2. CASE f.key = key
  <2>1. Rewritten(key, f) = [f EXCEPT !.left = Ttl, !.whole = TRUE]
    BY <1>2 DEF Rewritten
  <2> DEFINE g == Rewritten(key, f)
  <2>2. g \in Files /\ g.key = f.key /\ g.size = f.size /\ g.left = Ttl /\ g.whole = TRUE
    BY <2>1, <1>1 DEF Files
  <2>. HIDE DEF g
  <2>3. g.left >= f.left
    BY <2>2, <1>1
  <2>. QED
    BY <2>2, <2>3 DEF g
<1>3. CASE f.key # key
  BY <1>1, <1>3 DEF Rewritten
<1>. QED
  BY <1>2, <1>3

Worn(x) == [x EXCEPT !.left = IF @ = 0 THEN 0 ELSE @ - 1]

LEMMA WornIs ==
    ASSUME EvidenceConstants
    PROVE  /\ \A f \in Files : /\ Worn(f) \in Files /\ Worn(f).key = f.key /\ Worn(f).size = f.size
                               /\ Worn(f).whole = f.whole
                               /\ Worn(f).left = IF f.left = 0 THEN 0 ELSE f.left - 1
           /\ \A r \in Refs : /\ Worn(r) \in Refs /\ Worn(r).key = r.key /\ Worn(r).size = r.size
                              /\ Worn(r).left = IF r.left = 0 THEN 0 ELSE r.left - 1
           /\ \A s \in Saver : /\ Worn(s) \in Saver /\ Worn(s).key = s.key /\ Worn(s).size = s.size
                               /\ Worn(s).step = s.step
<1>1. \A n \in 0..Ttl : (IF n = 0 THEN 0 ELSE n - 1) \in 0..Ttl
  BY DEF EvidenceConstants
<1>2. ASSUME NEW f \in Files
      PROVE  /\ Worn(f) \in Files /\ Worn(f).key = f.key /\ Worn(f).size = f.size
             /\ Worn(f).whole = f.whole
             /\ Worn(f).left = IF f.left = 0 THEN 0 ELSE f.left - 1
  BY <1>1 DEF Worn, Files
<1>3. ASSUME NEW r \in Refs
      PROVE  /\ Worn(r) \in Refs /\ Worn(r).key = r.key /\ Worn(r).size = r.size
             /\ Worn(r).left = IF r.left = 0 THEN 0 ELSE r.left - 1
  BY <1>1 DEF Worn, Refs
<1>4. ASSUME NEW s \in Saver
      PROVE  /\ Worn(s) \in Saver /\ Worn(s).key = s.key /\ Worn(s).size = s.size
             /\ Worn(s).step = s.step
  BY <1>1 DEF Worn, Saver
<1>. QED
  BY <1>2, <1>3, <1>4

LEMMA EvidenceInitially == EvidenceConstants /\ EvidenceInit => EvidenceInv
<1> SUFFICES ASSUME EvidenceConstants, EvidenceInit PROVE EvidenceInv
  OBVIOUS
<1>1. Idles \in Saver /\ 0 \in 0..MaxSaves /\ MaxFiles \in Nat
  BY DEF EvidenceConstants, Idles, Saver, SaverSteps
<1>2. saver \in [Savers -> Saver] /\ \A s \in Savers : saver[s].step = "idle"
  BY <1>1 DEF EvidenceInit, Idles
<1>3. EvidenceTypeOK
  BY <1>1, <1>2 DEF EvidenceInit, EvidenceTypeOK, Saver
<1>4. IsFiniteSet(files) /\ Listed
  BY <1>1, FS_EmptySet DEF EvidenceInit, Listed
<1>5. LockHeld /\ BeingWritten /\ RefsOutlived
  BY <1>2 DEF EvidenceInit, LockHeld, BeingWritten, RefsOutlived
<1>. QED
  BY <1>3, <1>4, <1>5 DEF EvidenceInv

\* What has not expired stays when the directory is pruned.
LEMMA PrunedAre ==
    ASSUME EvidenceInv, EvidenceConstants
    PROVE  /\ Pruned \subseteq files /\ IsFiniteSet(Pruned)
           /\ Cardinality(Pruned) \in Nat /\ Cardinality(Pruned) <= Cardinality(files)
           /\ \A r \in refs : r.left > 0 =>
                 \E f \in Pruned : f.key = r.key /\ f.whole /\ f.size = r.size /\ f.left >= r.left
<1>1. EvidenceTypeOK /\ IsFiniteSet(files) /\ RefsOutlived /\ Ttl \in Nat
  BY DEF EvidenceInv, EvidenceConstants
<1>2. Pruned \subseteq files
  BY DEF Pruned
<1>3. IsFiniteSet(Pruned) /\ Cardinality(Pruned) <= Cardinality(files)
  BY <1>1, <1>2, FS_Subset
<1>4. ASSUME NEW r \in refs, r.left > 0
      PROVE  \E f \in Pruned : f.key = r.key /\ f.whole /\ f.size = r.size /\ f.left >= r.left
  <2>1. PICK f \in files : f.key = r.key /\ f.whole /\ f.size = r.size /\ f.left >= r.left
    BY <1>1, <1>4 DEF RefsOutlived
  <2>2. f.left \in 0..Ttl /\ r.left \in 0..Ttl
    BY <1>1, FilesAre DEF EvidenceTypeOK
  <2>3. f.left > 0
    BY <2>1, <2>2, <1>1, <1>4
  <2>4. f \in Pruned
    BY <2>3 DEF Pruned
  <2>. QED
    BY <2>1, <2>4
<1>. QED
  BY <1>2, <1>3, <1>4, FS_CardinalityType

\* What a process that rests, or takes another step, leaves of the others.
LEMMA SaverIs ==
    ASSUME EvidenceTypeOK, NEW s \in Savers, NEW me \in Saver, saver' = [saver EXCEPT ![s] = me]
    PROVE  /\ saver' \in [Savers -> Saver] /\ saver'[s] = me
           /\ \A t \in Savers : t # s => saver'[t] = saver[t]
BY DEF EvidenceTypeOK, Saver

LEMMA IdlesIs == EvidenceConstants => Idles \in Saver /\ Idles.step = "idle"
BY DEF EvidenceConstants, Idles, Saver, SaverSteps

LEMMA DateKeeps ==
    ASSUME EvidenceConstants, EvidenceInv, NEW s \in Savers, Date(s) PROVE EvidenceInv'
<1>1. PICK size \in Sizes :
        saver' = [saver EXCEPT ![s] = [@ EXCEPT !.step = "dated", !.left = Ttl, !.size = size]]
  BY DEF Date
<1>2. UNCHANGED <<files, used, refs, locked>> /\ EvidenceTypeOK /\ LockHeld /\ BeingWritten
      /\ RefsOutlived /\ Listed /\ IsFiniteSet(files)
  BY DEF Date, EvidenceInv
<1> DEFINE me == [saver[s] EXCEPT !.step = "dated", !.left = Ttl, !.size = size]
<1>3. me \in Saver /\ me.step = "dated"
  <2>1. saver[s] \in Saver /\ Ttl \in 0..Ttl /\ "dated" \in SaverSteps
    BY <1>2 DEF EvidenceTypeOK, Saver, EvidenceConstants, SaverSteps
  <2>. QED
    BY <2>1 DEF Saver
<1>4. saver' = [saver EXCEPT ![s] = me]
  BY <1>1, <1>2 DEF EvidenceTypeOK
<1>. HIDE DEF me
<1>5. /\ saver' \in [Savers -> Saver] /\ saver'[s] = me
      /\ \A t \in Savers : t # s => saver'[t] = saver[t]
  BY <1>2, <1>3, <1>4, SaverIs
<1>6. EvidenceTypeOK'
  BY <1>2, <1>5 DEF EvidenceTypeOK, Saver
<1>7. LockHeld' /\ BeingWritten'
  BY <1>2, <1>3, <1>5 DEF LockHeld, BeingWritten
<1>8. RefsOutlived' /\ Listed' /\ IsFiniteSet(files)'
  BY <1>2 DEF RefsOutlived, Listed
<1>. QED
  BY <1>6, <1>7, <1>8 DEF EvidenceInv

LEMMA LockKeeps ==
    ASSUME EvidenceConstants, EvidenceInv, NEW s \in Savers, Lock(s) PROVE EvidenceInv'
<1>1. UNCHANGED <<files, used, refs>> /\ EvidenceTypeOK /\ LockHeld /\ BeingWritten
      /\ RefsOutlived /\ Listed /\ IsFiniteSet(files) /\ Nobody \notin Savers
  BY DEF Lock, EvidenceInv, EvidenceConstants
<1>2. PICK me \in Saver :
        /\ saver' = [saver EXCEPT ![s] = me]
        /\ \/ locked = Nobody /\ locked' = s /\ me.step = "locked"
           \/ locked' = locked /\ me.step = "idle"
  <2>1. CASE locked = Nobody
    <3> DEFINE me == [saver[s] EXCEPT !.step = "locked"]
    <3>1. me \in Saver /\ me.step = "locked"
      <4>1. saver[s] \in Saver /\ "locked" \in SaverSteps
        BY <1>1 DEF EvidenceTypeOK, Saver, SaverSteps
      <4>. QED
        BY <4>1 DEF Saver
    <3>2. locked' = s /\ saver' = [saver EXCEPT ![s] = me]
      BY <2>1 DEF Lock
    <3>. HIDE DEF me
    <3>. QED
      BY <2>1, <3>1, <3>2
  <2>2. CASE locked # Nobody
    BY <2>2, IdlesIs DEF Lock, Rest
  <2>. QED
    BY <2>1, <2>2
<1>3. /\ saver' \in [Savers -> Saver] /\ saver'[s] = me
      /\ \A t \in Savers : t # s => saver'[t] = saver[t]
  BY <1>1, <1>2, SaverIs
<1>4. EvidenceTypeOK'
  BY <1>1, <1>2, <1>3 DEF EvidenceTypeOK, Saver
<1>5. LockHeld' /\ BeingWritten'
  BY <1>1, <1>2, <1>3 DEF LockHeld, BeingWritten
<1>6. RefsOutlived' /\ Listed' /\ IsFiniteSet(files)'
  BY <1>1 DEF RefsOutlived, Listed
<1>. QED
  BY <1>4, <1>5, <1>6 DEF EvidenceInv

\* Who rests leaves the lock, and no one else is about to write.
LEMMA RestsKeeps ==
    ASSUME EvidenceConstants, EvidenceInv, NEW s \in Savers, Rest(s),
           locked' = IF locked = s THEN Nobody ELSE locked,
           used' \in 0..MaxSaves, files' \subseteq Files, refs' \subseteq Refs,
           IsFiniteSet(files'), Cardinality(files') <= MaxFiles, RefsOutlived',
           locked = s \/ files' = files
    PROVE  EvidenceInv'
<1>1. EvidenceTypeOK /\ LockHeld /\ BeingWritten /\ Nobody \notin Savers
  BY DEF EvidenceInv, EvidenceConstants
<1>2. /\ saver' \in [Savers -> Saver] /\ saver'[s].step = "idle"
      /\ \A t \in Savers : t # s => saver'[t] = saver[t]
  BY <1>1, SaverIs, IdlesIs DEF Rest
<1>3. EvidenceTypeOK'
  BY <1>1, <1>2 DEF EvidenceTypeOK, Saver
<1>4. LockHeld' /\ BeingWritten'
  BY <1>1, <1>2 DEF LockHeld, BeingWritten
<1>. QED
  BY <1>3, <1>4 DEF EvidenceInv, Listed

LEMMA CreateKeeps ==
    ASSUME EvidenceConstants, EvidenceInv, NEW s \in Savers, Create(s) PROVE EvidenceInv'
<1>1. EvidenceTypeOK /\ LockHeld /\ BeingWritten /\ RefsOutlived /\ Listed /\ IsFiniteSet(files)
      /\ refs' = refs /\ MaxFiles \in Nat /\ MaxSaves \in Nat /\ Ttl \in Nat
  BY DEF Create, EvidenceInv, EvidenceConstants
<1>2. locked = s /\ saver[s].step = "locked" /\ saver[s] \in Saver
  BY <1>1 DEF Create, AtStep, LockHeld, EvidenceTypeOK, Saver
<1>3. /\ Pruned \subseteq files /\ IsFiniteSet(Pruned) /\ Cardinality(Pruned) \in Nat
      /\ \A r \in refs : r.left > 0 =>
            \E f \in Pruned : f.key = r.key /\ f.whole /\ f.size = r.size /\ f.left >= r.left
      /\ Cardinality(Pruned) <= MaxFiles
  <2>1. Cardinality(files) \in Nat /\ Cardinality(files) <= MaxFiles
    BY <1>1, FS_CardinalityType DEF Listed
  <2>. QED
    BY <1>1, <2>1, PrunedAre
<1>4. CASE ~Fits(Pruned, saver[s].size)
  <2>1. Rest(s) /\ locked' = Nobody /\ files' = Pruned /\ used' = used
    BY <1>1, <1>4 DEF Create
  <2>2. RefsOutlived'
    BY <1>1, <1>3, <2>1 DEF RefsOutlived
  <2>3. files' \subseteq Files /\ refs' \subseteq Refs /\ used' \in 0..MaxSaves
    BY <1>1, <1>3, <2>1 DEF EvidenceTypeOK
  <2>. QED
    BY <1>2, <1>3, <2>1, <2>2, <2>3, RestsKeeps
<1>5. CASE Fits(Pruned, saver[s].size)
  <2> DEFINE new == [key |-> used + 1, size |-> saver[s].size, left |-> Ttl, whole |-> FALSE]
             me == [saver[s] EXCEPT !.step = "open", !.key = used + 1]
  <2>1. /\ used < MaxSaves /\ used' = used + 1 /\ locked' = locked
        /\ files' = Pruned \cup {new} /\ saver' = [saver EXCEPT ![s] = me]
    BY <1>1, <1>5 DEF Create
  <2>2. used' \in 0..MaxSaves /\ used + 1 \in 0..MaxSaves /\ used + 1 \in Nat /\ Ttl \in 0..Ttl
    BY <1>1, <2>1 DEF EvidenceTypeOK
  <2>3. new \in Files /\ new.key = used + 1 /\ new.size = saver[s].size
    BY <1>2, <2>2 DEF Files, Saver
  <2>4. me \in Saver /\ me.key = used + 1 /\ me.size = saver[s].size /\ me.step = "open"
    BY <1>2, <2>2 DEF Saver, SaverSteps
  <2>. HIDE DEF new, me
  <2>5. /\ saver' \in [Savers -> Saver] /\ saver'[s] = me
        /\ \A t \in Savers : t # s => saver'[t] = saver[t]
    BY <1>1, <2>1, <2>4, SaverIs
  <2>6. IsFiniteSet(files') /\ Cardinality(files') <= MaxFiles
    <3>1. IsFiniteSet(Pruned \cup {new})
          /\ Cardinality(Pruned \cup {new}) \in {Cardinality(Pruned), Cardinality(Pruned) + 1}
      BY <1>3, FS_AddElement
    <3>2. Cardinality(Pruned) < MaxFiles
      BY <1>5 DEF Fits
    <3>. QED
      BY <1>1, <1>3, <2>1, <3>1, <3>2
  <2>7. EvidenceTypeOK'
    BY <1>1, <1>3, <2>1, <2>2, <2>3, <2>5 DEF EvidenceTypeOK, Saver
  <2>8. LockHeld'
    BY <1>1, <1>2, <2>1, <2>5 DEF LockHeld
  <2>9. BeingWritten'
    <3>1. \A t \in Savers : saver'[t].step = "open" => t = s
      BY <1>1, <1>2, <2>5 DEF LockHeld
    <3>2. new \in files'
      BY <2>1
    <3>. QED
      BY <2>3, <2>4, <2>5, <3>1, <3>2 DEF BeingWritten
  <2>10. RefsOutlived'
    BY <1>1, <1>3, <2>1 DEF RefsOutlived
  <2>. QED
    BY <2>6, <2>7, <2>8, <2>9, <2>10 DEF EvidenceInv, Listed
<1>. QED
  BY <1>4, <1>5

LEMMA WriteKeeps ==
    ASSUME EvidenceConstants, EvidenceInv, NEW s \in Savers, Write(s) PROVE EvidenceInv'
<1> DEFINE me == saver[s]
           ref == [key |-> me.key, size |-> me.size, left |-> me.left]
           Is(f, g) == /\ g \in Files /\ g.key = f.key /\ g.size = f.size /\ g.left >= f.left
                       /\ f.whole => g.whole
                       /\ f.key = me.key => g.whole /\ g.left = Ttl
<1>1. EvidenceTypeOK /\ LockHeld /\ BeingWritten /\ RefsOutlived /\ Listed /\ IsFiniteSet(files)
      /\ MaxFiles \in Nat /\ Ttl \in Nat
  BY DEF EvidenceInv, EvidenceConstants
<1>2. /\ me.step = "open" /\ refs' = refs \cup {ref} /\ locked' = Nobody /\ Rest(s) /\ used' = used
      /\ files' = {Rewritten(me.key, f) : f \in files}
  BY DEF Write, AtStep, Rewritten
<1>3. locked = s /\ me \in Saver
  BY <1>1, <1>2 DEF LockHeld, EvidenceTypeOK, Saver
<1>4. ref \in Refs /\ ref.left = me.left /\ ref.key = me.key /\ ref.size = me.size
      /\ me.left \in 0..Ttl
  <2>1. me.key \in Nat /\ me.size \in Sizes /\ me.left \in 0..Ttl
    BY <1>3 DEF Saver, EvidenceConstants
  <2>. QED
    BY <2>1 DEF Refs
<1>5. PICK written \in files : written.key = me.key /\ written.size = me.size
  BY <1>1, <1>2 DEF BeingWritten
<1>. HIDE DEF ref, me
<1>6. \A f \in files : Is(f, Rewritten(me.key, f))
  BY <1>1, RewrittenIs DEF EvidenceTypeOK
<1>. HIDE DEF Is
<1>7. IsFiniteSet(files') /\ Cardinality(files') <= MaxFiles
  <2> DEFINE g == [f \in files |-> Rewritten(me.key, f)]
  <2>1. files' = {g[f] : f \in files} /\ g = [f \in files |-> g[f]]
    BY <1>2
  <2>. HIDE DEF g
  <2>2. IsFiniteSet(files') /\ Cardinality(files') <= Cardinality(files)
    BY <1>1, <2>1, ImageSmaller
  <2>3. Cardinality(files') \in Nat /\ Cardinality(files) \in Nat /\ Cardinality(files) <= MaxFiles
    BY <1>1, <2>2, FS_CardinalityType DEF Listed
  <2>. QED
    BY <1>1, <2>2, <2>3
<1>8. files' \subseteq Files /\ refs' \subseteq Refs
  BY <1>1, <1>2, <1>4, <1>6 DEF EvidenceTypeOK, Is
<1>9. ASSUME NEW r \in refs', r.left > 0
      PROVE  \E f \in files' : f.key = r.key /\ f.whole /\ f.size = r.size /\ f.left >= r.left
  <2>1. CASE r = ref
    <3>1. Rewritten(me.key, written) \in files'
      BY <1>2, <1>5
    <3>2. Is(written, Rewritten(me.key, written))
      BY <1>5, <1>6
    <3>. QED
      BY <2>1, <3>1, <3>2, <1>1, <1>4, <1>5 DEF Is
  <2>2. CASE r \in refs
    <3>1. PICK f \in files : f.key = r.key /\ f.whole /\ f.size = r.size /\ f.left >= r.left
      BY <1>1, <1>9, <2>2 DEF RefsOutlived
    <3>2. Rewritten(me.key, f) \in files' /\ Is(f, Rewritten(me.key, f))
      BY <1>2, <1>6
    <3>3. f.left \in Int /\ r.left \in Int /\ Rewritten(me.key, f).left \in Int
      BY <1>1, <2>2, <3>2, FilesAre DEF EvidenceTypeOK, Is
    <3>. QED
      BY <3>1, <3>2, <3>3 DEF Is
  <2>. QED
    BY <2>1, <2>2, <1>2
<1>10. RefsOutlived'
  BY <1>9 DEF RefsOutlived
<1>. QED
  BY <1>1, <1>2, <1>3, <1>7, <1>8, <1>10, RestsKeeps DEF EvidenceTypeOK

LEMMA DieKeeps ==
    ASSUME EvidenceConstants, EvidenceInv, NEW s \in Savers, DieAt(s) PROVE EvidenceInv'
<1>1. Rest(s) /\ locked' = (IF locked = s THEN Nobody ELSE locked) /\ UNCHANGED <<files, used, refs>>
  BY DEF DieAt
<1>. QED
  BY <1>1, RestsKeeps DEF EvidenceInv, EvidenceTypeOK, RefsOutlived, Listed

LEMMA CleanupKeeps == ASSUME EvidenceConstants, EvidenceInv, Cleanup PROVE EvidenceInv'
<1>1. /\ locked = Nobody /\ files' = Pruned /\ UNCHANGED <<used, refs, saver, locked>>
      /\ Nobody \notin Savers /\ MaxFiles \in Nat
  BY DEF Cleanup, EvidenceConstants
<1>2. EvidenceTypeOK /\ LockHeld /\ Listed /\ IsFiniteSet(files)
  BY DEF EvidenceInv
<1>3. /\ Pruned \subseteq files /\ IsFiniteSet(Pruned) /\ Cardinality(Pruned) \in Nat
      /\ Cardinality(Pruned) <= Cardinality(files)
      /\ \A r \in refs : r.left > 0 =>
            \E f \in Pruned : f.key = r.key /\ f.whole /\ f.size = r.size /\ f.left >= r.left
  BY PrunedAre
<1>4. EvidenceTypeOK' /\ LockHeld'
  BY <1>1, <1>2, <1>3 DEF EvidenceTypeOK, LockHeld
<1>5. BeingWritten'
  BY <1>1, <1>2 DEF LockHeld, BeingWritten
<1>6. RefsOutlived'
  BY <1>1, <1>3 DEF RefsOutlived
<1>7. Listed'
  <2>1. Cardinality(files) \in Nat /\ Cardinality(files) <= MaxFiles
    BY <1>2, FS_CardinalityType DEF Listed
  <2>. QED
    BY <1>1, <1>3, <2>1 DEF Listed
<1>. QED
  BY <1>1, <1>3, <1>4, <1>5, <1>6, <1>7 DEF EvidenceInv

LEMMA ForgetKeeps == ASSUME EvidenceInv, Forget PROVE EvidenceInv'
<1>1. refs' \subseteq refs /\ UNCHANGED <<files, used, saver, locked>>
  BY DEF Forget
<1>. QED
  BY <1>1 DEF EvidenceInv, EvidenceTypeOK, LockHeld, BeingWritten, RefsOutlived, Listed

LEMMA TickKeeps == ASSUME EvidenceConstants, EvidenceInv, EvidenceTick PROVE EvidenceInv'
<1>1. EvidenceTypeOK /\ LockHeld /\ BeingWritten /\ RefsOutlived /\ Listed /\ IsFiniteSet(files)
      /\ MaxFiles \in Nat /\ Ttl \in Nat
  BY DEF EvidenceInv, EvidenceConstants
<1>2. /\ files' = {Worn(f) : f \in files} /\ refs' = {Worn(r) : r \in refs}
      /\ saver' = [s \in Savers |-> IF saver[s].left = 0 THEN saver[s]
                                    ELSE [saver[s] EXCEPT !.left = @ - 1]]
      /\ UNCHANGED <<used, locked>>
  BY DEF EvidenceTick, Elapsed, Worn
<1>3. /\ files' \subseteq Files /\ refs' \subseteq Refs
  BY <1>1, <1>2, WornIs DEF EvidenceTypeOK
<1>4. \A s \in Savers : saver'[s] \in Saver /\ saver'[s].step = saver[s].step
                        /\ saver'[s].size = saver[s].size /\ saver'[s].key = saver[s].key
  <2> SUFFICES ASSUME NEW s \in Savers
               PROVE  saver'[s] \in Saver /\ saver'[s].step = saver[s].step
                      /\ saver'[s].size = saver[s].size /\ saver'[s].key = saver[s].key
    OBVIOUS
  <2>1. saver[s] \in Saver
    BY <1>1 DEF EvidenceTypeOK, Saver
  <2>2. CASE saver[s].left = 0
    BY <1>2, <2>1, <2>2
  <2>3. CASE saver[s].left # 0
    <3>1. saver'[s] = [saver[s] EXCEPT !.left = saver[s].left - 1]
      BY <1>2, <2>3
    <3>2. saver[s].left - 1 \in 0..Ttl
      <4>1. saver[s].left \in 0..Ttl
        BY <2>1 DEF Saver
      <4>. QED
        BY <4>1, <2>3, <1>1
    <3>. QED
      BY <2>1, <3>1, <3>2 DEF Saver
  <2>. QED
    BY <2>2, <2>3
<1>5. saver' \in [Savers -> Saver]
  BY <1>2, <1>4
<1>6. EvidenceTypeOK' /\ LockHeld'
  BY <1>1, <1>2, <1>3, <1>4, <1>5 DEF EvidenceTypeOK, LockHeld, Saver
<1>7. BeingWritten'
  <2> SUFFICES ASSUME NEW s \in Savers, saver'[s].step = "open"
               PROVE  \E f \in files' : f.key = saver'[s].key /\ f.size = saver'[s].size
    BY DEF BeingWritten
  <2>1. PICK f \in files : f.key = saver[s].key /\ f.size = saver[s].size
    BY <1>1, <1>4 DEF BeingWritten
  <2>2. Worn(f) \in files' /\ Worn(f).key = f.key /\ Worn(f).size = f.size
    BY <1>1, <1>2, WornIs DEF EvidenceTypeOK
  <2>. QED
    BY <2>1, <2>2, <1>4
<1>8. RefsOutlived'
  <2> SUFFICES ASSUME NEW q \in refs', q.left > 0
               PROVE  \E f \in files' : f.key = q.key /\ f.whole /\ f.size = q.size /\ f.left >= q.left
    BY DEF RefsOutlived
  <2>1. PICK r \in refs : q = Worn(r)
    BY <1>2
  <2>2. r \in Refs /\ r.left \in 0..Ttl /\ q.key = r.key /\ q.size = r.size
        /\ q.left = IF r.left = 0 THEN 0 ELSE r.left - 1
    BY <2>1, <1>1, WornIs, FilesAre DEF EvidenceTypeOK
  <2>3. r.left > 0
    BY <2>2, <1>1
  <2>4. PICK f \in files : f.key = r.key /\ f.whole /\ f.size = r.size /\ f.left >= r.left
    BY <2>3, <1>1 DEF RefsOutlived
  <2>5. /\ Worn(f) \in files' /\ Worn(f).key = f.key /\ Worn(f).size = f.size
        /\ Worn(f).whole = f.whole /\ f.left \in 0..Ttl
        /\ Worn(f).left = IF f.left = 0 THEN 0 ELSE f.left - 1
    BY <1>1, <1>2, WornIs, FilesAre DEF EvidenceTypeOK
  <2>6. Worn(f).left >= q.left
    BY <2>2, <2>3, <2>4, <2>5, <1>1
  <2>. QED
    BY <2>2, <2>4, <2>5, <2>6
<1>9. IsFiniteSet(files)' /\ Listed'
  <2> DEFINE g == [f \in files |-> Worn(f)]
  <2>1. files' = {g[f] : f \in files} /\ g = [f \in files |-> g[f]]
    BY <1>2
  <2>. HIDE DEF g
  <2>2. IsFiniteSet(files') /\ Cardinality(files') <= Cardinality(files)
    BY <1>1, <2>1, ImageSmaller
  <2>3. Cardinality(files') \in Nat /\ Cardinality(files) \in Nat /\ Cardinality(files) <= MaxFiles
    BY <1>1, <2>2, FS_CardinalityType DEF Listed
  <2>. QED
    BY <1>1, <2>2, <2>3 DEF Listed
<1>. QED
  BY <1>6, <1>7, <1>8, <1>9 DEF EvidenceInv

LEMMA EvidenceStep ==
    EvidenceConstants /\ EvidenceInv /\ [EvidenceNext]_evidenceVariables => EvidenceInv'
<1> SUFFICES ASSUME EvidenceConstants, EvidenceInv, [EvidenceNext]_evidenceVariables
             PROVE  EvidenceInv'
  OBVIOUS
<1>1. CASE UNCHANGED evidenceVariables
  BY <1>1 DEF evidenceVariables, EvidenceInv, EvidenceTypeOK, LockHeld, BeingWritten,
              RefsOutlived, Listed
<1>. QED
  BY <1>1, DateKeeps, LockKeeps, CreateKeeps, WriteKeeps, DieKeeps, CleanupKeeps, ForgetKeeps,
     TickKeeps
  DEF EvidenceNext

LEMMA EvidenceBeside == [ContentNext]_contentVars => [EvidenceNext]_evidenceVariables
BY DEF ContentNext, contentVars

\* Evidence that has not expired can be replayed, whoever saves, cleans up or
\* dies meanwhile, and the directory stays small enough for its own inventory
\* (crawlers/_evidence.py).
THEOREM EvidenceKept == ContentSpec => []EvidenceHolds
<1>1. ContentInit => EvidenceInv
  BY EvidenceInitially, EvidenceConstants DEF ContentInit
<1>2. EvidenceInv /\ [ContentNext]_contentVars => EvidenceInv'
  BY EvidenceBeside, EvidenceStep, EvidenceConstants
<1>3. EvidenceInv => EvidenceHolds
  BY DEF EvidenceInv, RefsOutlived, EvidenceHolds, Loads
<1>. QED
  BY <1>1, <1>2, <1>3, PTL DEF ContentSpec

----------------------------------------------------------------------------
\* The catalogue keeps its invariant.

LEMMA MinIs == ASSUME NEW S, S \subseteq Nat, S # {} PROVE Min(S) \in S
BY LeastNat DEF Min

LEMMA ResolveIs ==
    ASSUME CatalogueTypeOK, NEW n
    PROVE  \/ Resolve(n) = NoFirm /\ BySlug(n) = {} /\ ByAlias(n) = {}
           \/ Resolve(n) \in Present /\ Resolve(n) \in BySlug(n) \cup ByAlias(n) /\ Resolve(n) # NoFirm
<1>1. BySlug(n) \subseteq Present /\ ByAlias(n) \subseteq Present
  BY DEF BySlug, ByAlias
<1>2. Present \subseteq Nat /\ NoFirm \notin Present
  BY DEF CatalogueTypeOK, NoFirm
<1>3. BySlug(n) # {} => Min(BySlug(n)) \in BySlug(n)
  BY <1>1, <1>2, MinIs
<1>4. ByAlias(n) # {} => Min(ByAlias(n)) \in ByAlias(n)
  BY <1>1, <1>2, MinIs
<1>. QED
  BY <1>1, <1>2, <1>3, <1>4 DEF Resolve

LEMMA CatalogueShows == CatalogueInv => CatalogueKeeps
<1> SUFFICES ASSUME CatalogueInv PROVE MergedNamesFound
  BY DEF CatalogueInv, CatalogueKeeps
<1> SUFFICES ASSUME NEW n \in Names, absorbed[n] # NoFirm
             PROVE  \/ Resolve(n) = absorbed[n]
                    \/ \E i \in Present \ {absorbed[n]} : i \in BySlug(n) \cup ByAlias(n)
  BY DEF MergedNamesFound
<1>1. absorbed[n] \in ByAlias(n)
  BY DEF CatalogueInv, AbsorbedAreAliases, ByAlias
<1>. QED
  BY <1>1, ResolveIs DEF CatalogueInv

LEMMA CatalogueInitially == CatalogueAssumption /\ CatalogueInit => CatalogueInv
<1> SUFFICES ASSUME CatalogueAssumption, CatalogueInit PROVE CatalogueInv
  OBVIOUS
<1>1. MaxCompanies \in Nat /\ MaxReadings \in Nat /\ MaxActs \in Nat
  BY DEF CatalogueAssumption
<1>2. DOMAIN << >> = {} /\ << >> = [i \in {} |-> 0]
  OBVIOUS
<1>3. row = << >> /\ links = << >>
  BY DEF CatalogueInit
<1>4. Present = {} /\ row \in [Present -> Firm] /\ Linked = {} /\ links \in [Linked -> Ids]
  BY <1>2, <1>3 DEF Present, Linked
<1>5. /\ led \in [Articles -> [Names -> Ids \cup {NoFirm}]]
      /\ absorbed \in [Names -> Ids \cup {NoFirm}]
      /\ merge \in [Mergers -> {NoMerge} \cup Merge] /\ \A m \in Mergers : merge[m] = NoMerge
  BY DEF CatalogueInit
<1>6. CatalogueTypeOK
  BY <1>1, <1>4, <1>5 DEF CatalogueInit, CatalogueTypeOK
<1>. QED
  BY <1>4, <1>5, <1>6 DEF CatalogueInit, CatalogueInv, OneSlugEach, LinksFollow, AbsorbedAreAliases,
                          MergeKnows, Knows

\* What a merge knows stays so, if no company comes back, the names it read stay
\* or it is marked as crossed, and an article that loses the target's link loses
\* the source's as well, or is torn, or the target goes.
LEMMA KnowsKeeps ==
    ASSUME CatalogueInv, NEW m \in Mergers,
           \/ merge'[m] = NoMerge \/ merge'[m] = merge[m]
           \/ merge[m] # NoMerge /\ merge'[m] = [merge[m] EXCEPT !.crossed = TRUE],
           created' \in Nat, created <= created', readings' \in Nat, readings <= readings', torn \subseteq torn',
           \A i \in Ids : i <= created /\ i \notin Present => i \notin Present',
           merge'[m] = merge[m] /\ ~merge[m].crossed => \A i \in {merge[m].target, merge[m].source} :
              i \in Present /\ i \in Present' =>
                 row'[i].aliases = row[i].aliases /\ row'[i].name = row[i].name,
           \A l \in Linked' : l \in Linked \/ l[3] > readings,
           \A k \in Linked, l \in merge[m].drops \cap Linked :
              /\ ArticleOf(k) = ArticleOf(l) /\ links[k] = merge[m].target
              /\ l \in Linked' /\ merge[m].target \in Present' /\ ArticleOf(l) \notin torn'
              => k \in Linked' /\ links'[k] = links[k]
    PROVE  Knows(m)'
<1>1. CASE merge'[m] = NoMerge
  BY <1>1 DEF Knows
<1>2. CASE merge'[m] # NoMerge
  <2>1. CatalogueTypeOK /\ Knows(m)
    BY DEF CatalogueInv, MergeKnows
  <2>2. merge[m] # NoMerge
    BY <1>2
  <2>3. merge[m] \in Merge /\ readings \in Nat /\ created \in Nat
    BY <2>1, <2>2 DEF CatalogueTypeOK
  <2>4. PICK mg \in Merge : mg = merge[m]
    BY <2>3
  <2>5. PICK now \in Merge : now = merge'[m]
    BY <1>2, <2>3 DEF Merge
  <2>6. /\ now.target = mg.target /\ now.source = mg.source /\ now.names = mg.names
        /\ now.others = mg.others /\ now.moves = mg.moves /\ now.drops = mg.drops
        /\ ~now.crossed => now = mg
    BY <1>2, <2>4, <2>5 DEF Merge
  <2>7. /\ mg.target \in Ids /\ mg.source \in Ids /\ mg.drops \subseteq Link
    BY <2>4 DEF Merge
  <2>8. /\ mg.target <= created /\ mg.source <= created /\ mg.target # mg.source
        /\ \A l \in mg.drops : l[3] <= readings
        /\ ~mg.crossed /\ mg.target \in Present => row[mg.target].aliases = mg.names
        /\ ~mg.crossed /\ mg.source \in Present => NamesOf(mg.source) = mg.others
        /\ \A l \in mg.drops \cap Linked :
              mg.target \in Present /\ ArticleOf(l) \notin torn =>
                 \E k \in LinksOf(mg.target) : ArticleOf(k) = ArticleOf(l)
    BY <2>1, <2>2, <2>4 DEF Knows
  <2>9. now.target <= created' /\ now.source <= created'
    BY <2>3, <2>6, <2>7, <2>8 DEF Ids
  <2>10. \A l \in mg.drops : l[3] \in Nat
    BY <2>7 DEF Link
  <2>11. \A l \in now.drops : l[3] <= readings'
    BY <2>3, <2>6, <2>8, <2>10
  <2>12. \A i \in {mg.target, mg.source} : i \in Present' => i \in Present
    BY <2>7, <2>8
  <2>13. ~now.crossed /\ now.target \in Present' => row'[now.target].aliases = now.names
    BY <2>4, <2>5, <2>6, <2>8, <2>12
  <2>14. ~now.crossed /\ now.source \in Present' => {row'[now.source].name} \cup row'[now.source].aliases = now.others
    BY <2>4, <2>5, <2>6, <2>8, <2>12 DEF NamesOf
  <2>15. ASSUME NEW l \in now.drops \cap Linked', now.target \in Present', ArticleOf(l) \notin torn'
         PROVE  \E k \in Linked' : links'[k] = now.target /\ ArticleOf(k) = ArticleOf(l)
    <3>1. l \in mg.drops /\ l \in Linked
      BY <2>3, <2>6, <2>8, <2>10, <2>15
    <3>2. PICK k \in LinksOf(mg.target) : ArticleOf(k) = ArticleOf(l)
      BY <2>6, <2>8, <2>12, <2>15, <3>1
    <3>3. k \in Linked /\ links[k] = mg.target
      BY <3>2 DEF LinksOf
    <3>4. k \in Linked' /\ links'[k] = links[k]
      BY <2>4, <2>6, <2>15, <3>1, <3>2, <3>3
    <3>. QED
      BY <2>6, <3>2, <3>3, <3>4
  <2>. QED
    BY <2>5, <2>6, <2>8, <2>9, <2>11, <2>13, <2>14, <2>15 DEF Knows, NamesOf, LinksOf, ArticleOf
<1>. QED
  BY <1>1, <1>2

\* The merges that a changed company crosses.
LEMMA CrossingIs ==
    ASSUME CatalogueTypeOK, NEW i
    PROVE  /\ Crossing(i) \in [Mergers -> {NoMerge} \cup Merge]
           /\ \A m \in Mergers :
                 \/ Crossing(i)[m] = merge[m] /\ (merge[m] = NoMerge \/ i \notin {merge[m].target, merge[m].source})
                 \/ merge[m] # NoMerge /\ Crossing(i)[m] = [merge[m] EXCEPT !.crossed = TRUE]
                    /\ Crossing(i)[m].crossed
<1>1. \A m \in Mergers : merge[m] # NoMerge =>
         /\ [merge[m] EXCEPT !.crossed = TRUE] \in Merge
         /\ [merge[m] EXCEPT !.crossed = TRUE].crossed
  BY DEF CatalogueTypeOK, Merge
<1>. QED
  BY <1>1 DEF Crossing, CatalogueTypeOK

LEMMA SentIsFirm == ASSUME NEW before \in Firm, NEW sent \in Entries(before) PROVE sent \in Firm
<1>1. ASSUME NEW n \in Names, sent = [before EXCEPT !.name = n] PROVE sent \in Firm
  BY <1>1 DEF Firm
<1>2. ASSUME NEW s \in SUBSET Names, sent = [before EXCEPT !.aliases = s] PROVE sent \in Firm
  BY <1>2 DEF Firm
<1>3. \/ sent = before
      \/ \E n \in Names : sent = [before EXCEPT !.name = n]
      \/ \E s \in {{}, Names} : sent = [before EXCEPT !.aliases = s]
  BY DEF Entries
<1>4. {{}, Names} \subseteq SUBSET Names
  OBVIOUS
<1>. QED
  BY <1>1, <1>2, <1>3, <1>4

\* A company is edited: its slug stays or is new, a name that a merge gave it
\* stays an alias or is forgotten, and merges that have read it are crossed.
LEMMA SentKeeps ==
    ASSUME CatalogueAssumption, CatalogueInv, NEW sent, sent \in Entries(form.shown), SendForm(sent)
    PROVE  CatalogueInv'
<1>1. /\ CatalogueTypeOK /\ OneSlugEach /\ LinksFollow /\ AbsorbedAreAliases
      /\ MaxActs \in Nat /\ created \in Nat /\ readings \in Nat
  BY DEF CatalogueInv, CatalogueAssumption, CatalogueTypeOK
<1>2. /\ form # NoForm /\ form.id \in Present /\ Acts /\ form' = NoForm
      /\ SlugOf[sent.name] # SlugOf[row[form.id].name] => BySlug(sent.name) = {}
      /\ row' = [row EXCEPT ![form.id] = sent]
      /\ merge' = IF sent = row[form.id] THEN merge ELSE Crossing(form.id)
      /\ absorbed' = [n \in Names |-> IF absorbed[n] = form.id /\ n \notin sent.aliases
                                      THEN NoFirm ELSE absorbed[n]]
      /\ UNCHANGED <<created, links, led, torn, readings>>
  BY DEF SendForm
<1>3. PICK i \in Present : i = form.id
  BY <1>2
<1>4. sent \in Firm
  BY <1>1, <1>2, SentIsFirm DEF CatalogueTypeOK
<1>5. row' \in [Present -> Firm] /\ row'[i] = sent /\ \A j \in Present : j # i => row'[j] = row[j]
  BY <1>1, <1>2, <1>3, <1>4 DEF CatalogueTypeOK
<1>6. Present' = Present /\ Linked' = Linked
  BY <1>2, <1>5 DEF Present, Linked
<1>7. i # NoFirm
  BY <1>1 DEF CatalogueTypeOK, NoFirm
<1>8. MergeKnows'
  <2> SUFFICES ASSUME NEW m \in Mergers PROVE Knows(m)'
    BY DEF MergeKnows
  <2>1. \/ merge'[m] = merge[m] /\ (sent = row[i] \/ merge[m] = NoMerge \/ i \notin {merge[m].target, merge[m].source})
        \/ merge[m] # NoMerge /\ merge'[m] = [merge[m] EXCEPT !.crossed = TRUE] /\ merge'[m].crossed
    BY <1>1, <1>2, <1>3, CrossingIs
  <2>2. CASE merge[m] = NoMerge
    <3>1. merge'[m] = NoMerge
      BY <2>1, <2>2
    <3>. QED
      BY <3>1 DEF Knows
  <2>3. CASE merge[m] # NoMerge
    <3>1. merge'[m] = merge[m] /\ ~merge[m].crossed => \A j \in {merge[m].target, merge[m].source} :
             j \in Present /\ j \in Present' => row'[j].aliases = row[j].aliases /\ row'[j].name = row[j].name
      BY <1>5, <2>1, <2>3
    <3>. QED
      BY <1>1, <1>2, <1>6, <2>1, <3>1, KnowsKeeps
  <2>. QED
    BY <2>2, <2>3
<1>9. CatalogueTypeOK'
  <2>1. merge' \in [Mergers -> {NoMerge} \cup Merge]
    BY <1>1, <1>2, CrossingIs DEF CatalogueTypeOK
  <2>2. absorbed' \in [Names -> Ids \cup {NoFirm}]
    BY <1>1, <1>2 DEF CatalogueTypeOK
  <2>. QED
    BY <1>1, <1>2, <1>5, <1>6, <2>1, <2>2 DEF CatalogueTypeOK, Acts
<1>10. OneSlugEach'
  <2>1. SlugOf[sent.name] = SlugOf[row[i].name] \/ BySlug(sent.name) = {}
    BY <1>2, <1>3
  <2>2. \A j \in Present : j # i => SlugOf[row[j].name] # SlugOf[sent.name]
    BY <1>1, <2>1 DEF OneSlugEach, BySlug
  <2>. QED
    BY <1>1, <1>5, <1>6, <2>2 DEF OneSlugEach
<1>11. LinksFollow'
  BY <1>1, <1>2, <1>6 DEF LinksFollow, LinksOf
<1>12. AbsorbedAreAliases'
  <2> SUFFICES ASSUME NEW n \in Names, absorbed'[n] # NoFirm
               PROVE  absorbed'[n] \in Present' /\ n \in row'[absorbed'[n]].aliases
    BY DEF AbsorbedAreAliases
  <2>1. absorbed'[n] = absorbed[n] /\ (absorbed[n] = i => n \in sent.aliases)
    BY <1>2, <1>3
  <2>2. absorbed[n] \in Present /\ n \in row[absorbed[n]].aliases
    BY <1>1, <2>1 DEF AbsorbedAreAliases
  <2>. QED
    BY <1>5, <1>6, <2>1, <2>2
<1>. QED
  BY <1>8, <1>9, <1>10, <1>11, <1>12 DEF CatalogueInv

LEMMA FormKeeps ==
    ASSUME CatalogueInv, NEW i \in Ids, OpenForm(i) PROVE CatalogueInv'
<1>1. CatalogueTypeOK
  BY DEF CatalogueInv
<1>2. /\ form' = [id |-> i, shown |-> row[i]] /\ i \in Present
      /\ UNCHANGED <<row, created, links, merge, led, absorbed, torn, readings, acts>>
  BY DEF OpenForm
<1>3. form'.id \in Ids /\ form'.shown \in Firm
  BY <1>1, <1>2 DEF CatalogueTypeOK
<1>4. CatalogueTypeOK'
  BY <1>1, <1>2, <1>3 DEF CatalogueTypeOK, Present, Linked
<1>. QED
  BY <1>2, <1>4 DEF CatalogueInv, OneSlugEach, LinksFollow, LinksOf, Linked, AbsorbedAreAliases, MergeKnows,
                    Knows, NamesOf, Present

\* Companies that are created under new ids and slugs.
LEMMA FoundedKeep ==
    ASSUME CatalogueInv, NEW ids \in SUBSET Ids, \A i \in ids : i > created /\ i <= created',
           created' \in 0..MaxCompanies, created <= created', NEW firms \in [ids -> Firm],
           row' = [i \in Present \cup ids |-> IF i \in Present THEN row[i] ELSE firms[i]],
           \A i, j \in ids : SlugOf[firms[i].name] = SlugOf[firms[j].name] => i = j,
           \A i \in ids : BySlug(firms[i].name) = {},
           absorbed' = absorbed
    PROVE  /\ Present' = Present \cup ids /\ Present' \subseteq 1..created'
           /\ row' \in [Present' -> Firm] /\ OneSlugEach' /\ AbsorbedAreAliases'
           /\ \A i \in Ids : i <= created /\ i \notin Present => i \notin Present'
           /\ \A i \in Present : row'[i] = row[i]
<1>1. CatalogueTypeOK /\ OneSlugEach /\ AbsorbedAreAliases
  BY DEF CatalogueInv
<1>2. Present' = Present \cup ids
  BY DEF Present
<1>3. created \in Nat /\ created' \in Nat /\ Present \subseteq 1..created /\ ids \subseteq Nat
  BY <1>1 DEF CatalogueTypeOK, Ids
<1>4. Present \cap ids = {}
  BY <1>3
<1>5. Present' \subseteq 1..created'
  BY <1>2, <1>3
<1>6. \A i \in Present : row'[i] = row[i]
  OBVIOUS
<1>7. \A i \in ids : row'[i] = firms[i]
  BY <1>4
<1>8. row' \in [Present' -> Firm]
  BY <1>1, <1>2 DEF CatalogueTypeOK
<1>9. OneSlugEach'
  <2>1. \A i \in Present, j \in ids : SlugOf[row[i].name] # SlugOf[firms[j].name]
    BY DEF BySlug
  <2>. QED
    BY <1>1, <1>2, <1>6, <1>7, <2>1 DEF OneSlugEach
<1>10. AbsorbedAreAliases'
  BY <1>1, <1>2, <1>6 DEF AbsorbedAreAliases
<1>11. \A i \in Ids : i <= created /\ i \notin Present => i \notin Present'
  BY <1>2, <1>3 DEF Ids
<1>. QED
  BY <1>2, <1>5, <1>6, <1>8, <1>9, <1>10, <1>11

LEMMA AddKeeps ==
    ASSUME CatalogueAssumption, CatalogueInv, NEW n \in Names, NEW aliases \in SUBSET Names,
           AddByHand(n, aliases)
    PROVE  CatalogueInv'
<1> DEFINE ids == {created'}
           firm == [name |-> n, aliases |-> aliases]
           firms == [i \in ids |-> firm]
<1>1. /\ CatalogueTypeOK /\ LinksFollow /\ MaxActs \in Nat /\ MaxCompanies \in Nat
      /\ created \in Nat /\ readings \in Nat
  BY DEF CatalogueInv, CatalogueAssumption, CatalogueTypeOK
<1>2. /\ Acts /\ created < MaxCompanies /\ created' = created + 1 /\ BySlug(n) = {}
      /\ row' = [i \in Present \cup ids |-> IF i \in Present THEN row[i] ELSE firm]
      /\ UNCHANGED <<links, form, merge, led, absorbed, torn, readings>>
  BY DEF AddByHand
<1>3. firm \in Firm /\ firm.name = n
  BY DEF Firm
<1>. HIDE DEF firm
<1>4. /\ created' \in 0..MaxCompanies /\ created <= created' /\ ids \in SUBSET Ids
      /\ \A i \in ids : i > created /\ i <= created'
  BY <1>1, <1>2 DEF Ids
<1>5. firms \in [ids -> Firm] /\ \A i \in ids : firms[i] = firm
  BY <1>3
<1>6. row' = [i \in Present \cup ids |-> IF i \in Present THEN row[i] ELSE firms[i]]
  BY <1>2
<1>7. \A i, j \in ids : i = j
  OBVIOUS
<1>. HIDE DEF ids, firms
<1>8. /\ Present' = Present \cup ids /\ Present' \subseteq 1..created'
      /\ row' \in [Present' -> Firm] /\ OneSlugEach' /\ AbsorbedAreAliases'
      /\ \A i \in Ids : i <= created /\ i \notin Present => i \notin Present'
      /\ \A i \in Present : row'[i] = row[i]
  <2>1. \A i \in ids : BySlug(firms[i].name) = {}
    BY <1>2, <1>3, <1>5
  <2>2. \A i, j \in ids : SlugOf[firms[i].name] = SlugOf[firms[j].name] => i = j
    BY <1>7
  <2>. QED
    BY <1>2, <1>4, <1>5, <1>6, <2>1, <2>2, FoundedKeep, ZenonT(60)
<1>9. Linked' = Linked
  BY <1>2 DEF Linked
<1>10. MergeKnows'
  <2> SUFFICES ASSUME NEW m \in Mergers PROVE Knows(m)'
    BY DEF MergeKnows
  <2>2. /\ created' \in Nat /\ created <= created' /\ readings' \in Nat /\ readings <= readings'
        /\ torn \subseteq torn' /\ merge'[m] = merge[m]
    BY <1>1, <1>2, <1>4
  <2>3. \A i \in Ids : i <= created /\ i \notin Present => i \notin Present'
    BY <1>8
  <2>4. \A i \in Present : row'[i].aliases = row[i].aliases /\ row'[i].name = row[i].name
    BY <1>8
  <2>5. \A l \in Linked' : l \in Linked
    BY <1>9
  <2>6. \A k \in Linked : k \in Linked' /\ links'[k] = links[k]
    BY <1>2, <1>9
  <2>. QED
    BY <2>2, <2>3, <2>4, <2>5, <2>6, KnowsKeeps
<1>11. CatalogueTypeOK'
  BY <1>1, <1>2, <1>4, <1>8, <1>9 DEF CatalogueTypeOK, Acts
<1>12. LinksFollow'
  BY <1>1, <1>2, <1>9 DEF LinksFollow, LinksOf
<1>. QED
  BY <1>8, <1>10, <1>11, <1>12 DEF CatalogueInv

\* A company goes, with its links.
LEMMA DeleteKeeps ==
    ASSUME CatalogueAssumption, CatalogueInv, NEW i \in Ids, Delete(i) PROVE CatalogueInv'
<1>1. CatalogueTypeOK /\ OneSlugEach /\ LinksFollow /\ AbsorbedAreAliases
      /\ MaxActs \in Nat /\ created \in Nat /\ readings \in Nat
  BY DEF CatalogueInv, CatalogueAssumption, CatalogueTypeOK
<1>2. /\ Acts /\ i \in Present /\ links' = [l \in Linked \ LinksOf(i) |-> links[l]]
      /\ row' = [j \in Present \ {i} |-> row[j]]
      /\ led' = [a \in Articles |-> [n \in Names |-> IF led[a][n] = i THEN NoFirm ELSE led[a][n]]]
      /\ absorbed' = [n \in Names |-> IF absorbed[n] = i THEN NoFirm ELSE absorbed[n]]
      /\ UNCHANGED <<created, form, merge, torn, readings>>
  BY DEF Delete, Forgotten, Restrict
<1>3. Present' = Present \ {i} /\ row' \in [Present' -> Firm] /\ \A j \in Present' : row'[j] = row[j]
  BY <1>1, <1>2 DEF CatalogueTypeOK, Present
<1>4. Linked' = Linked \ LinksOf(i) /\ links' \in [Linked' -> Ids] /\ \A l \in Linked' : links'[l] = links[l]
  BY <1>1, <1>2 DEF CatalogueTypeOK, Linked
<1>5. MergeKnows'
  <2> SUFFICES ASSUME NEW m \in Mergers PROVE Knows(m)'
    BY DEF MergeKnows
  <2>1. \A k \in Linked, l \in merge[m].drops \cap Linked :
           links[k] = merge[m].target /\ merge[m].target \in Present' => k \in Linked' /\ links'[k] = links[k]
    BY <1>3, <1>4 DEF LinksOf
  <2>2. \A l \in Linked' : l \in Linked \/ l[3] > readings
    BY <1>4
  <2>3. /\ created' \in Nat /\ created <= created' /\ readings' \in Nat /\ readings <= readings'
        /\ torn \subseteq torn' /\ merge'[m] = merge[m]
    BY <1>1, <1>2
  <2>4. \A j \in Present' : row'[j].aliases = row[j].aliases /\ row'[j].name = row[j].name
    BY <1>3
  <2>5. \A j \in Ids : j <= created /\ j \notin Present => j \notin Present'
    BY <1>3
  <2>. QED
    BY <2>1, <2>2, <2>3, <2>4, <2>5, KnowsKeeps
<1>6. led' \in [Articles -> [Names -> Ids \cup {NoFirm}]]
  <2>1. \A a \in Articles :
          [n \in Names |-> IF led[a][n] = i THEN NoFirm ELSE led[a][n]] \in [Names -> Ids \cup {NoFirm}]
    BY <1>1 DEF CatalogueTypeOK
  <2>. QED
    BY <1>2, <2>1
<1>7. absorbed' \in [Names -> Ids \cup {NoFirm}]
  BY <1>1, <1>2 DEF CatalogueTypeOK
<1>8. CatalogueTypeOK'
  <2>1. \A l \in Linked' : l \in Link /\ l[3] <= readings'
    BY <1>1, <1>2, <1>4 DEF CatalogueTypeOK
  <2>. QED
    BY <1>1, <1>2, <1>3, <1>4, <1>6, <1>7, <2>1 DEF CatalogueTypeOK, Acts
<1>9. OneSlugEach'
  BY <1>1, <1>3 DEF OneSlugEach
<1>10. LinksFollow'
  <2> SUFFICES ASSUME NEW a \in Articles \ torn', NEW n \in Names, led'[a][n] # NoFirm
               PROVE  \E l \in Linked' : links'[l] = led'[a][n] /\ ArticleOf(l) = a
    BY DEF LinksFollow, LinksOf, ArticleOf
  <2>1. led'[a][n] = led[a][n] /\ led[a][n] # i
    BY <1>2
  <2>2. PICK l \in Linked : links[l] = led[a][n] /\ ArticleOf(l) = a
    BY <1>1, <1>2, <2>1 DEF LinksFollow, LinksOf
  <2>3. l \in Linked'
    BY <1>4, <2>1, <2>2 DEF LinksOf
  <2>. QED
    BY <1>4, <2>1, <2>2, <2>3
<1>11. AbsorbedAreAliases'
  <2> SUFFICES ASSUME NEW n \in Names, absorbed'[n] # NoFirm
               PROVE  absorbed'[n] \in Present' /\ n \in row'[absorbed'[n]].aliases
    BY DEF AbsorbedAreAliases
  <2>1. absorbed'[n] = absorbed[n] /\ absorbed[n] # i
    BY <1>2
  <2>. QED
    BY <2>1, <1>1, <1>3 DEF AbsorbedAreAliases
<1>. QED
  BY <1>5, <1>8, <1>9, <1>10, <1>11 DEF CatalogueInv

\* A merge begins: what it has read is so.
LEMMA MergeReadsKeeps ==
    ASSUME CatalogueAssumption, CatalogueInv, NEW m \in Mergers, NEW target \in Ids, NEW source \in Ids,
           MergeReads(m, target, source)
    PROVE  CatalogueInv'
<1> DEFINE known == {ArticleOf(l) : l \in LinksOf(target)}
           moves == {l \in LinksOf(source) : ArticleOf(l) \notin known}
           drops == LinksOf(source) \ moves
           names == row[target].aliases
           others == NamesOf(source)
           begun == [target |-> target, source |-> source, names |-> names, others |-> others,
                     moves |-> moves, drops |-> drops, crossed |-> FALSE]
<1>1. CatalogueTypeOK /\ MergeKnows /\ MaxActs \in Nat /\ created \in Nat /\ readings \in Nat
  BY DEF CatalogueInv, CatalogueAssumption, CatalogueTypeOK
<1>2. /\ Acts /\ target # source /\ {target, source} \subseteq Present
      /\ merge' = [merge EXCEPT ![m] = begun]
      /\ UNCHANGED <<row, created, links, form, led, absorbed, torn, readings>>
  BY DEF MergeReads
<1>3. names \in SUBSET Names /\ others \in SUBSET Names
  <2>1. row[target] \in Firm /\ row[source] \in Firm
    BY <1>1, <1>2 DEF CatalogueTypeOK
  <2>. QED
    BY <2>1 DEF Firm, NamesOf
<1>4. moves \in SUBSET Link /\ drops \in SUBSET Link /\ \A l \in drops : l[3] <= readings
  BY <1>1 DEF LinksOf, CatalogueTypeOK
<1>5. \A l \in drops : \E k \in LinksOf(target) : ArticleOf(k) = ArticleOf(l)
  OBVIOUS
<1>6. target <= created /\ source <= created
  <2>1. Present \subseteq 1..created
    BY <1>1 DEF CatalogueTypeOK
  <2>. QED
    BY <1>1, <1>2, <2>1
<1>. HIDE DEF known, moves, drops, names, others
<1>7. /\ begun \in Merge /\ begun.target = target /\ begun.source = source /\ begun.names = names
      /\ begun.others = others /\ begun.drops = drops /\ begun # NoMerge
  <2>1. begun \in Merge
    BY <1>3, <1>4 DEF Merge
  <2>2. target # NoFirm
    BY DEF Ids, NoFirm
  <2>. QED
    BY <2>1, <2>2 DEF NoMerge
<1>. HIDE DEF begun
<1>8. merge' \in [Mergers -> {NoMerge} \cup Merge] /\ merge'[m] = begun /\ \A o \in Mergers : o # m => merge'[o] = merge[o]
  BY <1>1, <1>2, <1>7 DEF CatalogueTypeOK
<1>9. Present' = Present /\ Linked' = Linked
  BY <1>2 DEF Present, Linked
<1>10. MergeKnows'
  <2> SUFFICES ASSUME NEW o \in Mergers PROVE Knows(o)'
    BY DEF MergeKnows
  <2>1. CASE o = m
    <3>1. names = row[target].aliases /\ others = NamesOf(source)
      BY DEF names, others
    <3>. QED
      BY <1>2, <1>4, <1>5, <1>6, <1>7, <1>8, <1>9, <2>1, <3>1 DEF Knows, NamesOf, LinksOf, ArticleOf
  <2>2. CASE o # m
    BY <1>1, <1>2, <1>8, <1>9, <2>2 DEF MergeKnows, Knows, NamesOf, LinksOf, ArticleOf
  <2>. QED
    BY <2>1, <2>2
<1>11. CatalogueTypeOK'
  BY <1>1, <1>2, <1>8, <1>9 DEF CatalogueTypeOK, Acts
<1>12. OneSlugEach' /\ LinksFollow' /\ AbsorbedAreAliases'
  BY <1>2, <1>9 DEF CatalogueInv, OneSlugEach, LinksFollow, LinksOf, AbsorbedAreAliases
<1>. QED
  BY <1>10, <1>11, <1>12 DEF CatalogueInv

\* A merge is written, across what others have committed since it read.
LEMMA MergeCommitsKeeps ==
    ASSUME CatalogueInv, NEW m \in Mergers, MergeCommits(m) PROVE CatalogueInv'
<1> DEFINE target == merge[m].target
           source == merge[m].source
           moves == merge[m].moves
           drops == merge[m].drops
           aliases == AliasesAfter(m)
           firm == [row[target] EXCEPT !.aliases = aliases]
           there == target \in Present
           crossing == Crossing(target)
           writes == Writes(m)
           given == merge[m].others \cup (IF source \in Present THEN NamesOf(source) ELSE {})
                    \cup {n \in Names : absorbed[n] = target}
           lost == IF merge[m].crossed THEN Names \ aliases ELSE {}
<1>1. /\ CatalogueTypeOK /\ OneSlugEach /\ LinksFollow /\ AbsorbedAreAliases /\ MergeKnows
      /\ merge[m] # NoMerge /\ MergeStands(m) /\ created \in Nat /\ readings \in Nat
  BY DEF CatalogueInv, MergeCommits, CatalogueTypeOK
<1>2. merge[m] \in Merge
  BY <1>1 DEF CatalogueTypeOK
<1>3. /\ target # source
      /\ ~merge[m].crossed /\ there => row[target].aliases = merge[m].names
      /\ ~merge[m].crossed /\ source \in Present => NamesOf(source) = merge[m].others
      /\ \A l \in drops \cap Linked : there /\ ArticleOf(l) \notin torn =>
            \E k \in LinksOf(target) : ArticleOf(k) = ArticleOf(l)
  BY <1>1 DEF MergeKnows, Knows
<1>4. /\ moves \subseteq Linked /\ source \notin Range(Merged(m))
      /\ there \/ moves = {}
  BY <1>1 DEF MergeStands
<1>5. /\ links' = [l \in Linked \ drops |-> IF l \in moves THEN target ELSE links[l]]
      /\ row' = [i \in Present \ {source} |-> IF i = target THEN firm ELSE row[i]]
      /\ led' = [a \in Articles |-> [n \in Names |->
             IF led[a][n] # source THEN led[a][n] ELSE IF there THEN target ELSE NoFirm]]
      /\ torn' = torn \cup Torn(m)
      /\ merge' = [IF writes THEN crossing ELSE merge EXCEPT ![m] = NoMerge]
      /\ UNCHANGED <<created, form, readings, acts>>
  BY DEF MergeCommits, Merged
<1>6. absorbed' = [n \in Names |->
          IF there /\ n \in given \ lost THEN target
          ELSE IF absorbed[n] \in {source, target} THEN NoFirm ELSE absorbed[n]]
  BY DEF MergeCommits, Absorbs
<1>7. /\ target \in Ids /\ source \in Ids /\ merge[m].names \subseteq Names /\ merge[m].others \subseteq Names
  BY <1>2 DEF Merge
<1>8. there => firm \in Firm /\ firm.name = row[target].name /\ firm.aliases = aliases
  <2> SUFFICES ASSUME there PROVE firm \in Firm /\ firm.name = row[target].name /\ firm.aliases = aliases
    OBVIOUS
  <2>1. row[target] \in Firm
    BY <1>1 DEF CatalogueTypeOK
  <2>2. aliases \in SUBSET Names
    BY <1>7, <2>1 DEF AliasesAfter, Gathered, Firm
  <2>. HIDE DEF aliases
  <2>. QED
    BY <2>1, <2>2 DEF Firm
<1>9. ~writes /\ there => aliases = row[target].aliases
  BY DEF AliasesAfter
<1>10. ~merge[m].crossed /\ there => given \subseteq aliases
  <2> SUFFICES ASSUME ~merge[m].crossed, there PROVE given \subseteq aliases
    OBVIOUS
  <2>1. aliases = merge[m].names \cup merge[m].others
    BY <1>3 DEF AliasesAfter, Writes, Gathered
  <2>2. source \in Present => NamesOf(source) \subseteq merge[m].others
    BY <1>3
  <2>3. \A n \in Names : absorbed[n] = target => n \in merge[m].names
    BY <1>1, <1>3, <1>7 DEF AbsorbedAreAliases, Ids, NoFirm
  <2>. QED
    BY <2>1, <2>2, <2>3
<1>11. \A l \in Linked : l \in drops \cup moves /\ links[l] # source => ArticleOf(l) \in torn'
  BY <1>5 DEF Torn
<1>12. /\ Linked' = Linked \ drops
       /\ \A l \in Linked' : links'[l] = IF l \in moves THEN target ELSE links[l]
  BY <1>5 DEF Linked
<1>13. \A l \in Linked' : links'[l] # source
  BY <1>4, <1>5, <1>12 DEF Range, Merged, Linked
<1>14. given \cap Names = {n \in Names : n \in given}
  OBVIOUS
<1>15. there /\ merge[m].crossed => \A n \in Names : n \notin lost => n \in aliases
  OBVIOUS
<1>16. there => \A n \in Names : n \in given \ lost => n \in aliases
  BY <1>10, <1>15
<1>17. \A n \in Names : absorbed[n] = target => n \in given
  OBVIOUS
<1>. HIDE DEF target, source, moves, drops, aliases, firm, crossing, writes, given, lost, there
<1>18. /\ Present' = Present \ {source} /\ row' \in [Present' -> Firm]
       /\ target \in Present' => row'[target] = firm
       /\ \A j \in Present' : j # target => row'[j] = row[j]
  BY <1>1, <1>5, <1>8 DEF CatalogueTypeOK, Present, there
<1>19. /\ merge' \in [Mergers -> {NoMerge} \cup Merge] /\ merge'[m] = NoMerge
       /\ \A o \in Mergers : o # m =>
             merge'[o] = IF writes THEN crossing[o] ELSE merge[o]
  <2>1. crossing \in [Mergers -> {NoMerge} \cup Merge]
    BY <1>1, CrossingIs DEF crossing
  <2>2. merge \in [Mergers -> {NoMerge} \cup Merge]
    BY <1>1 DEF CatalogueTypeOK
  <2>. QED
    BY <1>5, <2>1, <2>2
<1>20. CatalogueTypeOK'
  <2>1. led' \in [Articles -> [Names -> Ids \cup {NoFirm}]]
    <3>1. \A a \in Articles :
            [n \in Names |-> IF led[a][n] # source THEN led[a][n] ELSE IF there THEN target ELSE NoFirm]
               \in [Names -> Ids \cup {NoFirm}]
      BY <1>1, <1>7 DEF CatalogueTypeOK, target
    <3>. QED
      BY <1>5, <3>1
  <2>2. absorbed' \in [Names -> Ids \cup {NoFirm}]
    BY <1>1, <1>6, <1>7 DEF CatalogueTypeOK
  <2>3. links' \in [Linked' -> Ids] /\ \A l \in Linked' : l \in Link /\ l[3] <= readings'
    BY <1>1, <1>5, <1>7, <1>12 DEF CatalogueTypeOK
  <2>4. torn' \subseteq Articles
    <3>1. \A l \in Linked : ArticleOf(l) \in Articles
      BY <1>1 DEF CatalogueTypeOK, Link, ArticleOf
    <3>. QED
      BY <1>1, <1>5, <3>1 DEF Torn, CatalogueTypeOK
  <2>5. Present' \subseteq 1..created'
    BY <1>1, <1>5, <1>18 DEF CatalogueTypeOK
  <2>. QED
    BY <1>1, <1>5, <1>18, <1>19, <2>1, <2>2, <2>3, <2>4, <2>5 DEF CatalogueTypeOK
<1>21. OneSlugEach'
  <2>1. \A j \in Present' : j \in Present /\ row'[j].name = row[j].name
    BY <1>8, <1>18 DEF there
  <2>. QED
    BY <2>1, <1>1 DEF OneSlugEach
<1>22. LinksFollow'
  <2> SUFFICES ASSUME NEW a \in Articles \ torn', NEW n \in Names, led'[a][n] # NoFirm
               PROVE  \E l \in Linked' : links'[l] = led'[a][n] /\ ArticleOf(l) = a
    BY DEF LinksFollow, LinksOf, ArticleOf
  <2>1. a \notin torn
    BY <1>5
  <2>2. led[a][n] # NoFirm
    <3>1. source # NoFirm
      BY <1>7 DEF Ids, NoFirm
    <3>. QED
      BY <1>5, <3>1
  <2>3. PICK l \in Linked : links[l] = led[a][n] /\ ArticleOf(l) = a
    BY <1>1, <2>1, <2>2 DEF LinksFollow, LinksOf
  <2>4. CASE led[a][n] # source
    <3>1. led'[a][n] = led[a][n]
      BY <1>5, <2>4
    <3>2. l \notin drops \cup moves
      BY <1>11, <2>3, <2>4
    <3>. QED
      BY <1>12, <2>3, <3>1, <3>2
  <2>5. CASE led[a][n] = source
    <3>1. led'[a][n] = target /\ there
      BY <1>5, <2>5
    <3>2. CASE l \notin drops
      <4>1. links'[l] # source /\ l \in Linked'
        BY <1>12, <1>13, <3>2
      <4>2. links'[l] = target
        BY <1>12, <2>3, <2>5, <4>1
      <4>. QED
        BY <2>3, <3>1, <4>1, <4>2
    <3>3. CASE l \in drops
      <4>1. PICK k \in LinksOf(target) : ArticleOf(k) = ArticleOf(l)
        BY <1>3, <2>1, <2>3, <3>1, <3>3
      <4>2. k \in Linked /\ links[k] = target
        BY <4>1 DEF LinksOf
      <4>3. k \notin drops \cup moves
        BY <1>3, <1>11, <2>3, <4>1, <4>2
      <4>. QED
        BY <1>12, <2>3, <3>1, <4>1, <4>2, <4>3
    <3>. QED
      BY <3>2, <3>3
  <2>. QED
    BY <2>4, <2>5
<1>23. AbsorbedAreAliases'
  <2> SUFFICES ASSUME NEW n \in Names, absorbed'[n] # NoFirm
               PROVE  absorbed'[n] \in Present' /\ n \in row'[absorbed'[n]].aliases
    BY DEF AbsorbedAreAliases
  <2>1. CASE there /\ n \in given \ lost
    <3>1. absorbed'[n] = target /\ n \in aliases
      BY <1>6, <1>16, <2>1
    <3>2. target \in Present' /\ row'[target].aliases = aliases
      BY <1>3, <1>8, <1>18, <2>1 DEF there
    <3>. QED
      BY <3>1, <3>2
  <2>2. CASE ~(there /\ n \in given \ lost)
    <3>1. absorbed'[n] = absorbed[n] /\ absorbed[n] \notin {source, target}
      BY <1>6, <2>2
    <3>2. absorbed[n] \in Present /\ n \in row[absorbed[n]].aliases
      BY <1>1, <3>1 DEF AbsorbedAreAliases
    <3>. QED
      BY <1>18, <3>1, <3>2
  <2>. QED
    BY <2>1, <2>2
<1>24. MergeKnows'
  <2> SUFFICES ASSUME NEW o \in Mergers PROVE Knows(o)'
    BY DEF MergeKnows
  <2>1. CASE o = m
    BY <1>19, <2>1 DEF Knows
  <2>2. CASE o # m /\ merge[o] = NoMerge
    <3>1. merge'[o] = NoMerge
      BY <1>1, <1>19, <2>2, CrossingIs DEF crossing
    <3>. QED
      BY <3>1 DEF Knows
  <2>3. CASE o # m /\ merge[o] # NoMerge
    <3>1. \/ merge'[o] = merge[o] /\ (~writes \/ target \notin {merge[o].target, merge[o].source})
          \/ merge'[o] = [merge[o] EXCEPT !.crossed = TRUE] /\ merge'[o].crossed
      <4>1. \/ crossing[o] = merge[o] /\ target \notin {merge[o].target, merge[o].source}
            \/ crossing[o] = [merge[o] EXCEPT !.crossed = TRUE] /\ crossing[o].crossed
        BY <1>1, <2>3, CrossingIs DEF crossing
      <4>2. merge'[o] = IF writes THEN crossing[o] ELSE merge[o]
        BY <1>19, <2>3
      <4>3. CASE writes
        <5>1. merge'[o] = crossing[o]
          BY <4>2, <4>3
        <5>. QED
          BY <4>1, <5>1
      <4>. QED
        BY <4>2, <4>3
    <3>2. target \in Present' /\ ~writes => row'[target].aliases = row[target].aliases
      BY <1>8, <1>9, <1>18 DEF there
    <3>3. \A i \in Present' : i \in Present /\ row'[i].name = row[i].name
      BY <1>8, <1>18 DEF there
    <3>4. merge'[o] = merge[o] /\ ~merge[o].crossed => \A i \in {merge[o].target, merge[o].source} :
             i \in Present /\ i \in Present' => row'[i].aliases = row[i].aliases /\ row'[i].name = row[i].name
      BY <1>18, <3>1, <3>2, <3>3
    <3>5. \A k \in Linked, l \in merge[o].drops \cap Linked :
             /\ ArticleOf(k) = ArticleOf(l) /\ links[k] = merge[o].target
             /\ l \in Linked' /\ merge[o].target \in Present' /\ ArticleOf(l) \notin torn'
             => k \in Linked' /\ links'[k] = links[k]
      <4> SUFFICES ASSUME NEW k \in Linked, NEW l \in merge[o].drops \cap Linked,
                          ArticleOf(k) = ArticleOf(l), links[k] = merge[o].target,
                          merge[o].target \in Present', ArticleOf(l) \notin torn'
                   PROVE  k \in Linked' /\ links'[k] = links[k]
        OBVIOUS
      <4>1. links[k] # source
        BY <1>18
      <4>2. k \notin drops \cup moves
        BY <1>11, <4>1
      <4>. QED
        BY <1>12, <4>2
    <3>6. created' \in Nat /\ created <= created' /\ readings' \in Nat /\ readings <= readings' /\ torn \subseteq torn'
      BY <1>1, <1>5
    <3>7. \A i \in Ids : i <= created /\ i \notin Present => i \notin Present'
      BY <1>18
    <3>8. \A l \in Linked' : l \in Linked \/ l[3] > readings
      BY <1>12
    <3>. QED
      BY <2>3, <3>1, <3>4, <3>5, <3>6, <3>7, <3>8, KnowsKeeps
  <2>. QED
    BY <2>1, <2>2, <2>3
<1>. QED
  BY <1>20, <1>21, <1>22, <1>23, <1>24 DEF CatalogueInv

LEMMA MergeFailsKeeps == ASSUME CatalogueInv, NEW m \in Mergers, MergeFails(m) PROVE CatalogueInv'
<1>1. merge' = [merge EXCEPT ![m] = NoMerge]
      /\ UNCHANGED <<row, created, links, form, led, absorbed, torn, readings, acts>>
  BY DEF MergeFails
<1>2. CatalogueTypeOK /\ MergeKnows
  BY DEF CatalogueInv
<1>3. /\ merge' \in [Mergers -> {NoMerge} \cup Merge]
      /\ \A o \in Mergers : merge'[o] = NoMerge \/ merge'[o] = merge[o]
  BY <1>1, <1>2 DEF CatalogueTypeOK
<1>4. Present' = Present /\ Linked' = Linked
  BY <1>1 DEF Present, Linked
<1>5. CatalogueTypeOK'
  BY <1>1, <1>2, <1>3, <1>4 DEF CatalogueTypeOK
<1>6. MergeKnows'
  BY <1>1, <1>2, <1>3, <1>4 DEF MergeKnows, Knows, NamesOf, LinksOf
<1>. QED
  BY <1>1, <1>4, <1>5, <1>6 DEF CatalogueInv, OneSlugEach, LinksFollow, LinksOf, AbsorbedAreAliases

\* The results of an article.
LEMMA ApplyKeeps ==
    ASSUME CatalogueAssumption, CatalogueInv, NEW a \in Articles, NEW said \in Extractions,
           NEW force \in BOOLEAN, Apply(a, said, force)
    PROVE  CatalogueInv'
<1> DEFINE fresh == {n \in said : Resolve(n) = NoFirm}
           ids == created + 1 .. created + Cardinality(fresh)
           old == {l \in Linked : force /\ ArticleOf(l) = a}
           to(given, n) == IF n \in fresh THEN given[n] ELSE Resolve(n)
           unlinked(given, n) == \A l \in Linked \ old : ~(ArticleOf(l) = a /\ links[l] = to(given, n))
           new(given) == {<<a, to(given, n), readings'>> : n \in {m \in said : unlinked(given, m)}}
           named(given, i) == CHOOSE n \in fresh : given[n] = i
<1>1. /\ CatalogueTypeOK /\ OneSlugEach /\ LinksFollow /\ AbsorbedAreAliases
      /\ created \in Nat /\ readings \in Nat /\ IsFiniteSet(Names)
      /\ MaxReadings \in Nat /\ MaxCompanies \in Nat
  BY DEF CatalogueInv, CatalogueAssumption, CatalogueTypeOK
<1>2. said \in SUBSET Names /\ \A m, n \in said : SlugOf[m] = SlugOf[n] => m = n
  BY DEF Extractions
<1>3. /\ readings < MaxReadings /\ readings' = readings + 1
      /\ ids \subseteq Ids /\ created' = created + Cardinality(fresh)
      /\ UNCHANGED <<form, merge, absorbed, torn, acts>>
  BY DEF Apply
<1>4. PICK given \in Bijection(fresh, ids) :
        /\ row' = [i \in Present \cup ids |->
               IF i \in Present THEN row[i]
               ELSE [name |-> named(given, i), aliases |-> {}]]
        /\ links' = [l \in (Linked \ old) \cup new(given) |-> IF l \in new(given) THEN l[2] ELSE links[l]]
        /\ led' = [led EXCEPT ![a] = [n \in Names |->
               IF n \in said THEN to(given, n) ELSE IF force THEN NoFirm ELSE led[a][n]]]
  BY <1>1 DEF Apply, CatalogueTypeOK
<1>5. /\ given \in [fresh -> ids]
      /\ \A m, n \in fresh : given[m] = given[n] => m = n
      /\ \A i \in ids : \E n \in fresh : given[n] = i
  BY DEF Bijection, Injection, Surjection, IsInjective
<1>6. Cardinality(fresh) \in Nat
  BY <1>1, <1>2, FS_Subset, FS_CardinalityType
<1>7. /\ created' \in 0..MaxCompanies /\ created <= created'
      /\ \A i \in ids : i > created /\ i <= created'
  <2>1. CASE Cardinality(fresh) = 0
    BY <1>1, <1>3, <2>1 DEF CatalogueTypeOK
  <2>2. CASE Cardinality(fresh) > 0
    <3>1. created' \in ids
      BY <1>1, <1>3, <1>6, <2>2
    <3>. QED
      BY <3>1, <1>1, <1>3, <1>6 DEF Ids
  <2>. QED
    BY <1>6, <2>1, <2>2
<1>8. \A n \in fresh : BySlug(n) = {} /\ n \in said
  BY <1>1, ResolveIs
<1>9. \A n \in said : n \notin fresh => Resolve(n) \in Present
  BY <1>1, ResolveIs
<1>10. \A i \in ids : named(given, i) \in fresh /\ given[named(given, i)] = i
  BY <1>5
<1>11. fresh \subseteq Names
  BY <1>2
<1>12. /\ old \subseteq Linked /\ \A l \in old : ArticleOf(l) = a
       /\ \A l \in Linked : ArticleOf(l) = a /\ force => l \in old
       /\ ~force => old = {}
  BY DEF old
<1>13. /\ \A l \in new(given) : \E m \in said : l = <<a, to(given, m), readings'>>
       /\ \A n \in said : \/ <<a, to(given, n), readings'>> \in new(given)
                           \/ \E k \in Linked \ old : ArticleOf(k) = a /\ links[k] = to(given, n)
  OBVIOUS
<1>. HIDE DEF fresh, ids, old, named, new, unlinked
<1> DEFINE firms == [i \in ids |-> [name |-> named(given, i), aliases |-> {}]]
<1>14. /\ firms \in [ids -> Firm] /\ \A i \in ids : firms[i].name = named(given, i)
       /\ row' = [i \in Present \cup ids |-> IF i \in Present THEN row[i] ELSE firms[i]]
  <2>1. \A i \in ids : [name |-> named(given, i), aliases |-> {}] \in Firm
    BY <1>10, <1>11 DEF Firm
  <2>2. firms \in [ids -> Firm] /\ \A i \in ids : firms[i].name = named(given, i)
    BY <2>1
  <2>3. row' = [i \in Present \cup ids |-> IF i \in Present THEN row[i] ELSE firms[i]]
    BY <1>4
  <2>. QED
    BY <2>2, <2>3
<1>. HIDE DEF firms
<1>15. /\ Present' = Present \cup ids /\ Present' \subseteq 1..created'
       /\ row' \in [Present' -> Firm] /\ OneSlugEach' /\ AbsorbedAreAliases'
       /\ \A i \in Ids : i <= created /\ i \notin Present => i \notin Present'
       /\ \A i \in Present : row'[i] = row[i]
  <2>1. \A i \in ids : BySlug(firms[i].name) = {}
    BY <1>8, <1>10, <1>14
  <2>2. ASSUME NEW i \in ids, NEW j \in ids, SlugOf[firms[i].name] = SlugOf[firms[j].name]
        PROVE  i = j
    <3>1. named(given, i) = named(given, j)
      BY <1>2, <1>8, <1>10, <1>14, <2>2
    <3>. QED
      BY <1>10, <3>1
  <2>. QED
    <3>1. ids \in SUBSET Ids /\ absorbed' = absorbed
      BY <1>3
    <3>2. \A i, j \in ids : SlugOf[firms[i].name] = SlugOf[firms[j].name] => i = j
      BY <2>2
    <3>. QED
      <4>1. PICK I, F : I = ids /\ F = firms
        OBVIOUS
      <4>2. /\ I \in SUBSET Ids /\ F \in [I -> Firm] /\ \A i \in I : i > created /\ i <= created'
            /\ row' = [i \in Present \cup I |-> IF i \in Present THEN row[i] ELSE F[i]]
            /\ \A i, j \in I : SlugOf[F[i].name] = SlugOf[F[j].name] => i = j
            /\ \A i \in I : BySlug(F[i].name) = {}
        BY <1>7, <1>14, <2>1, <3>1, <3>2, <4>1
      <4>3. created' \in 0..MaxCompanies /\ created <= created'
        BY <1>7
      <4>4. /\ Present' = Present \cup I /\ Present' \subseteq 1..created'
            /\ row' \in [Present' -> Firm] /\ OneSlugEach' /\ AbsorbedAreAliases'
            /\ \A i \in Ids : i <= created /\ i \notin Present => i \notin Present'
            /\ \A i \in Present : row'[i] = row[i]
        BY <3>1, <4>2, <4>3, FoundedKeep, ZenonT(120)
      <4>. QED
        BY <4>1, <4>4
<1>16. \A n \in said : to(given, n) \in Ids
  <2>1. Present \subseteq Ids
    BY <1>1 DEF CatalogueTypeOK, Ids
  <2>2. \A n \in fresh : given[n] \in Ids
    BY <1>3, <1>5
  <2>. QED
    BY <1>9, <2>1, <2>2
<1>. HIDE DEF to
<1>17. \A l \in new(given) : l \in Articles \X Ids \X Nat /\ l[2] \in Ids /\ ArticleOf(l) = a /\ l[3] = readings + 1
  BY <1>1, <1>3, <1>13, <1>16 DEF ArticleOf
<1>18. \A l \in Linked : l \notin new(given)
  <2>1. \A l \in Linked : l[3] <= readings
    BY <1>1 DEF CatalogueTypeOK
  <2>. QED
    BY <1>1, <1>17, <2>1
<1>19. /\ Linked' = (Linked \ old) \cup new(given)
       /\ \A l \in Linked \ old : links'[l] = links[l]
       /\ \A l \in new(given) : links'[l] = l[2]
  BY <1>4, <1>18 DEF Linked
<1>20. MergeKnows'
  <2> SUFFICES ASSUME NEW m \in Mergers PROVE Knows(m)'
    BY DEF MergeKnows
  <2>1. \A k \in Linked, l \in merge[m].drops \cap Linked :
           ArticleOf(k) = ArticleOf(l) /\ l \in Linked' => k \in Linked' /\ links'[k] = links[k]
    BY <1>12, <1>18, <1>19
  <2>2. /\ created' \in Nat /\ created <= created' /\ readings' \in Nat /\ readings <= readings'
        /\ torn \subseteq torn' /\ merge'[m] = merge[m]
    BY <1>1, <1>3, <1>7
  <2>3. \A l \in Linked' : l \in Linked \/ l[3] > readings
    BY <1>1, <1>17, <1>19
  <2>. QED
    BY <1>15, <2>1, <2>2, <2>3, KnowsKeeps
<1>21. CatalogueTypeOK'
  <2>1. readings' \in 0..MaxReadings
    BY <1>1, <1>3
  <2>2. \A l \in new(given) : l \in Link /\ l[3] <= readings'
    BY <1>1, <1>3, <1>17 DEF Link
  <2>3. links' \in [Linked' -> Ids] /\ \A l \in Linked' : l \in Link /\ l[3] <= readings'
    <3>1. \A l \in Linked : l \in Link /\ l[3] <= readings' /\ links[l] \in Ids
      BY <1>1, <1>3 DEF CatalogueTypeOK, Link
    <3>2. \A l \in Linked' : links'[l] \in Ids
      BY <1>17, <1>19, <3>1
    <3>3. links' = [l \in Linked' |-> links'[l]]
      BY <1>4 DEF Linked
    <3>. QED
      BY <1>19, <2>2, <3>1, <3>2, <3>3
  <2>4. led' \in [Articles -> [Names -> Ids \cup {NoFirm}]]
    <3>1. [n \in Names |-> IF n \in said THEN to(given, n) ELSE IF force THEN NoFirm ELSE led[a][n]]
            \in [Names -> Ids \cup {NoFirm}]
      BY <1>1, <1>16 DEF CatalogueTypeOK
    <3>. QED
      BY <1>1, <1>4, <3>1 DEF CatalogueTypeOK
  <2>. QED
    BY <1>1, <1>3, <1>7, <1>15, <2>1, <2>3, <2>4 DEF CatalogueTypeOK
<1>22. LinksFollow'
  <2> SUFFICES ASSUME NEW b \in Articles \ torn', NEW n \in Names, led'[b][n] # NoFirm
               PROVE  \E l \in Linked' : links'[l] = led'[b][n] /\ ArticleOf(l) = b
    BY DEF LinksFollow, LinksOf, ArticleOf
  <2>1. CASE b = a /\ n \in said
    <3>1. led'[b][n] = to(given, n)
      BY <1>1, <1>4, <2>1 DEF CatalogueTypeOK
    <3>2. CASE <<a, to(given, n), readings'>> \in new(given)
      <4>1. PICK l : l = <<a, to(given, n), readings'>>
        OBVIOUS
      <4>2. l[2] = to(given, n) /\ l \in new(given)
        BY <3>2, <4>1
      <4>. QED
        BY <1>17, <1>19, <2>1, <3>1, <4>2
    <3>3. CASE \E l \in Linked \ old : ArticleOf(l) = a /\ links[l] = to(given, n)
      BY <1>19, <2>1, <3>1, <3>3
    <3>4. \/ <<a, to(given, n), readings'>> \in new(given)
          \/ \E k \in Linked \ old : ArticleOf(k) = a /\ links[k] = to(given, n)
      BY <1>13, <2>1
    <3>. QED
      BY <3>2, <3>3, <3>4
  <2>2. CASE ~(b = a /\ n \in said)
    <3>1. led'[b][n] = led[b][n] /\ (b = a => ~force)
      BY <1>1, <1>4, <2>2 DEF CatalogueTypeOK
    <3>2. PICK l \in Linked : links[l] = led[b][n] /\ ArticleOf(l) = b
      BY <1>1, <1>3, <3>1 DEF LinksFollow, LinksOf
    <3>3. l \notin old
      BY <1>12, <3>1, <3>2
    <3>. QED
      BY <1>19, <3>1, <3>2, <3>3
  <2>. QED
    BY <2>1, <2>2
<1>. QED
  BY <1>15, <1>20, <1>21, <1>22 DEF CatalogueInv

LEMMA CatalogueStep ==
    CatalogueAssumption /\ CatalogueInv /\ [CatalogueNext]_catalogueVars => CatalogueInv'
<1> SUFFICES ASSUME CatalogueAssumption, CatalogueInv, [CatalogueNext]_catalogueVars
             PROVE  CatalogueInv'
  OBVIOUS
<1>1. CASE UNCHANGED catalogueVars
  BY <1>1 DEF catalogueVars, CatalogueInv, CatalogueTypeOK, OneSlugEach, LinksFollow,
              AbsorbedAreAliases, MergeKnows, Knows, NamesOf, LinksOf, Linked, Present
<1>2. ASSUME NEW n \in Names, NEW aliases \in {{}, Names}, AddByHand(n, aliases)
      PROVE  CatalogueInv'
  BY <1>2, AddKeeps
<1>. QED
  BY <1>1, <1>2, ApplyKeeps, FormKeeps, DeleteKeeps, SentKeeps, MergeReadsKeeps,
     MergeCommitsKeeps, MergeFailsKeeps
  DEF CatalogueNext

LEMMA CatalogueBeside == [ContentNext]_contentVars => [CatalogueNext]_catalogueVars
BY DEF ContentNext, contentVars

\* However many merges cross each other, new results, forms and deletions: no
\* two companies share a slug; an article stays linked to the company its
\* results named, wherever it was merged, unless two merges of one company took
\* its link one from the other; and the names of a company that was merged away
\* are found in the one it was merged into, but for those that someone writes
\* to either company between a merge's read and its commit (pipeline.py,
\* admin.py).
THEOREM CatalogueKept == ContentSpec => []CatalogueKeeps
<1>1. ContentInit => CatalogueInv
  BY CatalogueInitially, CatalogueAssumption DEF ContentInit
<1>2. CatalogueInv /\ [ContentNext]_contentVars => CatalogueInv'
  BY CatalogueBeside, CatalogueStep, CatalogueAssumption
<1>3. CatalogueInv => CatalogueKeeps
  BY CatalogueShows
<1>. QED
  BY <1>1, <1>2, <1>3, PTL DEF ContentSpec

----------------------------------------------------------------------------
\* The schedule of a source is due by the rule.

\* Facts about division and multiples.

LEMMA DivIs ==
    ASSUME NEW x \in Int, NEW d \in Nat \ {0}
    PROVE  /\ x \div d \in Int
           /\ d * (x \div d) <= x /\ x < d * (x \div d) + d
  OBVIOUS

LEMMA TimesUp ==
    ASSUME NEW d \in Nat \ {0}, NEW i \in Int, NEW j \in Int
    PROVE  /\ i <= j => d * i <= d * j
           /\ d * i < d * j + d => i <= j
           /\ d * (i + 1) = d * i + d
           /\ d * (i + 2) = d * i + d + d
           /\ d * i \in Int
  OBVIOUS

\* What the proofs use of a setting of the anchor.
Setting(a) ==
    /\ a.hour \in 0..(Day - 1)
    /\ a.switch \in Int /\ a.before \in Int /\ a.after \in Int
    /\ a.after - a.before \in -1..1

LEMMA AnchorsAreSettings == ScheduleConstants => \A a \in Anchors : Setting(a)
BY DEF ScheduleConstants, Setting

LEMMA WallIs ==
    ASSUME ScheduleConstants, NEW a, Setting(a), NEW t \in Int
    PROVE  /\ Wall(a, t) \in Int
           /\ t < a.switch => Wall(a, t) = t + a.before
           /\ t >= a.switch => Wall(a, t) = t + a.after
BY DEF Wall, Setting

LEMMA UtcIs ==
    ASSUME ScheduleConstants, NEW a, Setting(a), NEW w \in Int
    PROVE  /\ Utc(a, w) \in Int
           /\ w < a.switch + a.before \/ w < a.switch + a.after => Utc(a, w) = w - a.before
           /\ w >= a.switch + a.before /\ w >= a.switch + a.after => Utc(a, w) = w - a.after
BY DEF Utc, Greatest, Setting

\* The clock on the wall goes back only as far as it came in the slot before.
LEMMA WallRises ==
    ASSUME ScheduleConstants, NEW a, Setting(a), NEW t \in Int, NEW u \in Int, t <= u
    PROVE  Wall(a, t) <= Wall(a, u)
<1>1. a.switch \in Int /\ a.before \in Int /\ a.after \in Int
      /\ a.after - a.before <= 1 /\ a.before - a.after <= 1
  BY DEF Setting
<1>. QED
  BY <1>1, WallIs

LEMMA UtcRises ==
    ASSUME ScheduleConstants, NEW a, Setting(a), NEW w \in Int, NEW v \in Int, w <= v
    PROVE  Utc(a, w) <= Utc(a, v)
<1>1. a.switch \in Int /\ a.before \in Int /\ a.after \in Int
      /\ a.after - a.before <= 1 /\ a.before - a.after <= 1
  BY DEF Setting
<1>. QED
  BY <1>1, UtcIs

\* What the wall shows two slots later is an instant that is later.
LEMMA UtcLater ==
    ASSUME ScheduleConstants, NEW a, Setting(a), NEW t \in Int, NEW w \in Int, w >= Wall(a, t) + 2
    PROVE  Utc(a, w) > t
<1>1. a.switch \in Int /\ a.before \in Int /\ a.after \in Int
      /\ a.after - a.before <= 1 /\ a.before - a.after <= 1
  BY DEF Setting
<1>2. /\ t < a.switch => Wall(a, t) = t + a.before
      /\ t >= a.switch => Wall(a, t) = t + a.after
  BY WallIs
<1>3. /\ w < a.switch + a.before \/ w < a.switch + a.after => Utc(a, w) = w - a.before
      /\ w >= a.switch + a.before /\ w >= a.switch + a.after => Utc(a, w) = w - a.after
  BY UtcIs
<1>. QED
  BY <1>1, <1>2, <1>3

\* An hour that the wall shows, or has passed, for the first time at an
\* instant is the hour of that instant.
LEMMA UtcOfTheFirst ==
    ASSUME ScheduleConstants, NEW a, Setting(a), NEW t \in Int, NEW w \in Int,
           Wall(a, t - 1) < w, w <= Wall(a, t)
    PROVE  Utc(a, w) = t
<1>1. a.switch \in Int /\ a.before \in Int /\ a.after \in Int
      /\ a.after - a.before <= 1 /\ a.before - a.after <= 1
  BY DEF Setting
<1>2. /\ t < a.switch => Wall(a, t) = t + a.before
      /\ t >= a.switch => Wall(a, t) = t + a.after
  BY WallIs
<1>3. /\ t - 1 < a.switch => Wall(a, t - 1) = t - 1 + a.before
      /\ t - 1 >= a.switch => Wall(a, t - 1) = t - 1 + a.after
  <2>1. t - 1 \in Int
    OBVIOUS
  <2>. QED
    BY <2>1, WallIs
<1>4. /\ w < a.switch + a.before \/ w < a.switch + a.after => Utc(a, w) = w - a.before
      /\ w >= a.switch + a.before /\ w >= a.switch + a.after => Utc(a, w) = w - a.after
  BY UtcIs
<1>5. CASE t < a.switch
  BY <1>1, <1>2, <1>3, <1>4, <1>5
<1>6. CASE t - 1 >= a.switch
  BY <1>1, <1>2, <1>3, <1>4, <1>6
<1>7. CASE t = a.switch
  BY <1>1, <1>2, <1>3, <1>4, <1>7
<1>. QED
  BY <1>1, <1>5, <1>6, <1>7

\* The candidates of AnchorAfter.
Candidate(a, m, k) == Utc(a, Day * (Wall(a, m) \div Day + k) + a.hour)

LEMMA CandidatesRise ==
    ASSUME ScheduleConstants, NEW a, Setting(a), NEW m \in Int
    PROVE  /\ Candidate(a, m, 0) \in Int /\ Candidate(a, m, 1) \in Int /\ Candidate(a, m, 2) \in Int
           /\ Candidate(a, m, 0) <= Candidate(a, m, 1)
           /\ Candidate(a, m, 1) <= Candidate(a, m, 2)
           /\ Candidate(a, m, 2) > m
<1>. DEFINE q == Wall(a, m) \div Day
            W(k) == Day * (q + k) + a.hour
<1>1. Day \in Nat \ {0} /\ a.hour \in Int /\ a.hour >= 0
  BY DEF ScheduleConstants, Setting
<1>2. Wall(a, m) \in Int
  BY WallIs
<1>3. q \in Int /\ Wall(a, m) < Day * q + Day
  BY <1>1, <1>2, DivIs
<1>. HIDE DEF q
<1>4. Day * q \in Int /\ Day * (q + 0) = Day * q /\ Day * (q + 1) = Day * q + Day
      /\ Day * (q + 2) = Day * q + Day + Day
  BY <1>1, <1>3, TimesUp
<1>5. /\ W(0) \in Int /\ W(1) \in Int /\ W(2) \in Int
      /\ W(0) <= W(1) /\ W(1) <= W(2) /\ W(2) >= Wall(a, m) + 2
  BY <1>1, <1>2, <1>3, <1>4
<1>6. Candidate(a, m, 0) = Utc(a, W(0)) /\ Candidate(a, m, 1) = Utc(a, W(1))
      /\ Candidate(a, m, 2) = Utc(a, W(2))
  BY DEF Candidate, q
<1>. HIDE DEF W
<1>. QED
  BY <1>5, <1>6, UtcIs, UtcRises, UtcLater

LEMMA AnchorAfterIs ==
    ASSUME ScheduleConstants, NEW a, Setting(a), NEW m \in Int
    PROVE  /\ AnchorAfter(a, m) \in Int
           /\ AnchorAfter(a, m) > m
           /\ AnchorAfter(a, m) <= Candidate(a, m, 2)
           /\ \A k \in 0..2 : Candidate(a, m, k) > m => AnchorAfter(a, m) <= Candidate(a, m, k)
<1>1. AnchorAfter(a, m) = IF Candidate(a, m, 0) > m THEN Candidate(a, m, 0)
                          ELSE IF Candidate(a, m, 1) > m THEN Candidate(a, m, 1)
                          ELSE Candidate(a, m, 2)
  BY DEF AnchorAfter, Candidate
<1>2. \A k \in 0..2 : k = 0 \/ k = 1 \/ k = 2
  OBVIOUS
<1>. QED
  BY <1>1, <1>2, CandidatesRise

\* No anchor comes between an instant and the anchor that is picked for it.
LEMMA NoneBefore ==
    ASSUME ScheduleConstants, NEW a, Setting(a), NEW m \in Nat, NEW t \in Int, t > m, Comes(a, t)
    PROVE  AnchorAfter(a, m) <= t
<1>. DEFINE j == Passed(a, t) - 1
            q == Wall(a, m) \div Day
            w == Day * j + a.hour
<1>1. Day \in Nat \ {0} /\ a.hour \in Int /\ a.hour >= 0 /\ a.hour < Day
  BY DEF ScheduleConstants, Setting
<1>2. t - 1 \in Int /\ t - 1 \in 0..(t - 1) /\ m <= t - 1 /\ m \in Int
  OBVIOUS
<1>3. Wall(a, m) \in Int /\ Wall(a, t) \in Int /\ Wall(a, t - 1) \in Int
  BY <1>2, WallIs
<1>4. Wall(a, m) <= Wall(a, t - 1)
  BY <1>2, WallRises
<1>5. q \in Int /\ Day * q <= Wall(a, m) /\ Day * q \in Int
  BY <1>1, <1>3, DivIs, TimesUp
<1>6. Passed(a, t) \in Int /\ Day * Passed(a, t) <= Wall(a, t) + Day - a.hour
  <2>1. Wall(a, t) + Day - a.hour \in Int
    BY <1>1, <1>3
  <2>2. Passed(a, t) = (Wall(a, t) + Day - a.hour) \div Day
    BY DEF Passed
  <2>. QED
    BY <2>1, <2>2, <1>1, DivIs
<1>7. Passed(a, t - 1) \in Int /\ Wall(a, t - 1) + Day - a.hour < Day * Passed(a, t - 1) + Day
  <2>1. Wall(a, t - 1) + Day - a.hour \in Int
    BY <1>1, <1>3
  <2>2. Passed(a, t - 1) = (Wall(a, t - 1) + Day - a.hour) \div Day
    BY DEF Passed
  <2>. QED
    BY <2>1, <2>2, <1>1, DivIs
<1>8. Passed(a, t - 1) <= j
  BY <1>2, <1>6, <1>7 DEF Comes
<1>9. j \in Int /\ Day * Passed(a, t - 1) <= Day * j /\ Day * j \in Int /\ Day * Passed(a, t - 1) \in Int
      /\ Day * Passed(a, t) = Day * j + Day
  <2>1. j \in Int /\ Passed(a, t) = j + 1
    BY <1>6
  <2>. HIDE DEF j
  <2>2. Day * (j + 1) = Day * j + Day
    BY <2>1, <1>1, TimesUp
  <2>. QED
    BY <2>1, <2>2, <1>1, <1>7, <1>8, TimesUp
<1>. HIDE DEF j, q
<1>10. w \in Int /\ Wall(a, t - 1) < w /\ w <= Wall(a, t)
  BY <1>1, <1>3, <1>6, <1>7, <1>9
<1>11. Utc(a, w) = t
  BY <1>10, UtcOfTheFirst
<1>12. q <= j
  <2>1. Day * q < Day * j + Day
    BY <1>1, <1>3, <1>4, <1>5, <1>9, <1>10
  <2>. QED
    BY <2>1, <1>1, <1>5, <1>9, TimesUp
<1>13. \A k \in 0..2 : Candidate(a, m, k) = Utc(a, Day * (q + k) + a.hour)
  BY DEF Candidate, q
<1>14. CASE \E k \in 0..2 : j = q + k
  <2>1. PICK k \in 0..2 : j = q + k
    BY <1>14
  <2>2. Candidate(a, m, k) = t
    BY <2>1, <1>11, <1>13
  <2>. QED
    BY <2>2, <1>2, AnchorAfterIs
<1>15. CASE j >= q + 2
  <2>1. q + 2 \in Int /\ Day * (q + 2) <= Day * j /\ Day * (q + 2) \in Int
    BY <1>1, <1>5, <1>9, <1>15, TimesUp
  <2>2. Day * (q + 2) + a.hour <= w /\ Day * (q + 2) + a.hour \in Int
    BY <2>1, <1>1, <1>9
  <2>. HIDE DEF w
  <2>3. Utc(a, Day * (q + 2) + a.hour) <= Utc(a, w)
    BY <2>2, <1>10, UtcRises
  <2>4. Candidate(a, m, 2) <= t
    BY <2>3, <1>11, <1>13
  <2>. QED
    BY <2>4, <1>2, AnchorAfterIs, CandidatesRise
<1>. QED
  <2>1. (\E k \in 0..2 : j = q + k) \/ j >= q + 2
    <3>1. j = q + 0 \/ j = q + 1 \/ j >= q + 2
      BY <1>5, <1>9, <1>12
    <3>. QED
      BY <3>1
  <2>. QED
    BY <2>1, <1>14, <1>15

LEMMA DueWell ==
    ASSUME ScheduleConstants, ScheduleTypeOK, NEW failures \in Nat, NEW hint \in Nat
    PROVE  LET due(category) == NextDue(category, plan.started, clock, failures, hint)
               period == Period(plan.frequency) IN
           /\ \A category \in Categories : due(category) \in Nat
           /\ period \in Nat
           /\ due("retry") > clock /\ due("retry") <= clock + Greatest(Day, period)
           /\ due("blocked") > clock /\ due("blocked") <= clock + Greatest(Day, period)
           /\ \A category \in {"ok", "extraction"} :
                  /\ due(category) > plan.started
                  /\ due(category) <= plan.started + period
                  /\ due(category) <= AnchorAfter(anchor, plan.started + AnchorGap)
<1>. DEFINE period == Period(plan.frequency)
            wait == Backoff(failures)
            next == AnchorAfter(anchor, plan.started + AnchorGap)
<1>1. /\ Day \in Nat \ {0} /\ AnchorGap \in Nat \ {0} /\ MinFrequency \in Nat \ {0}
      /\ plan.started \in Nat /\ plan.frequency \in Nat /\ clock \in Nat
  <2>1. Day \in Nat \ {0} /\ AnchorGap \in Nat \ {0} /\ MinFrequency \in Nat \ {0}
        /\ Frequencies \subseteq Nat /\ Horizon \in Nat
    BY DEF ScheduleConstants
  <2>2. plan.started \in Nat /\ plan.frequency \in Frequencies /\ clock \in 0..Horizon
    BY DEF ScheduleTypeOK
  <2>3. plan.frequency \in Nat
    BY <2>1, <2>2
  <2>4. clock \in Nat
    BY <2>1, <2>2
  <2>. QED
    BY <2>1, <2>2, <2>3, <2>4
<1>2. period \in Nat \ {0}
  BY <1>1 DEF Period, Greatest
<1>3. wait \in Nat \ {0}
  <2>. DEFINE n == Least(Greatest(failures - 1, 0), 16) + 1
  <2>1. n \in 1..17
    BY DEF Least, Greatest
  <2>2. Doublings[n] \in Nat \ {0}
    BY <2>1 DEF Doublings
  <2>3. wait = MinFrequency * Doublings[n]
    BY DEF Backoff
  <2>. HIDE DEF n, wait
  <2>4. \A x, y \in Nat \ {0} : x * y \in Nat \ {0}
    OBVIOUS
  <2>. QED
    BY <1>1, <2>2, <2>3, <2>4
<1>4. next \in Int /\ next > plan.started + AnchorGap
  <2>1. anchor \in Anchors /\ plan.started + AnchorGap \in Int
    BY <1>1 DEF ScheduleTypeOK
  <2>. QED
    BY <2>1, AnchorsAreSettings, AnchorAfterIs
<1>5. /\ NextDue("retry", plan.started, clock, failures, hint)
             = clock + (IF hint > 0 THEN Least(hint, Day) ELSE Least(period, wait))
      /\ NextDue("blocked", plan.started, clock, failures, hint) = clock + Day
      /\ \A category \in {"ok", "extraction"} :
             NextDue(category, plan.started, clock, failures, hint)
                 = Least(plan.started + period, next)
  BY DEF NextDue
<1>. HIDE DEF period, wait, next
<1>6. /\ NextDue("retry", plan.started, clock, failures, hint) \in Nat
      /\ NextDue("retry", plan.started, clock, failures, hint) > clock
      /\ NextDue("retry", plan.started, clock, failures, hint) <= clock + Greatest(Day, period)
  BY <1>1, <1>2, <1>3, <1>5 DEF Least, Greatest
<1>7. /\ NextDue("blocked", plan.started, clock, failures, hint) \in Nat
      /\ NextDue("blocked", plan.started, clock, failures, hint) > clock
      /\ NextDue("blocked", plan.started, clock, failures, hint) <= clock + Greatest(Day, period)
  BY <1>1, <1>2, <1>5 DEF Greatest
<1>8. /\ Least(plan.started + period, next) \in Nat
      /\ Least(plan.started + period, next) > plan.started
      /\ Least(plan.started + period, next) <= plan.started + period
      /\ Least(plan.started + period, next) <= next
  BY <1>1, <1>2, <1>4 DEF Least
<1>9. \A category \in {"ok", "extraction"} :
          /\ NextDue(category, plan.started, clock, failures, hint) \in Nat
          /\ NextDue(category, plan.started, clock, failures, hint) > plan.started
          /\ NextDue(category, plan.started, clock, failures, hint) <= plan.started + period
          /\ NextDue(category, plan.started, clock, failures, hint) <= next
  BY <1>5, <1>8
<1>. QED
  BY <1>2, <1>6, <1>7, <1>9 DEF Categories, period, next

LEMMA EndsWell ==
    ASSUME ScheduleConstants, ScheduleTypeOK,
           NEW category \in Categories, NEW hint \in RetryAfters \cup {0}, EndRun(category, hint)
    PROVE  /\ ScheduleTypeOK'
           /\ category \in {"ok", "extraction"} => AtTheNextAnchor
           /\ category \in {"retry", "blocked"} => WithinADay
<1>. DEFINE failures == IF category = "ok" THEN 0 ELSE plan.failures + 1
            due == NextDue(category, plan.started, clock, failures, hint)
            m == plan.started + AnchorGap
<1>1. hint \in Nat /\ failures \in Nat /\ MaxFailures \in Nat /\ AnchorGap \in Nat \ {0}
      /\ plan.started \in Nat /\ anchor \in Anchors
  BY DEF ScheduleConstants, ScheduleTypeOK
<1>2. /\ plan' = [plan EXCEPT !.running = FALSE, !.started = 0,
                              !.failures = Least(failures, MaxFailures), !.due = due]
      /\ UNCHANGED <<clock, anchor>>
  BY DEF EndRun
<1>. HIDE DEF failures
<1>3. /\ due \in Nat
      /\ category \in {"ok", "extraction"} =>
             /\ due > plan.started
             /\ due <= plan.started + Period(plan.frequency)
             /\ due <= AnchorAfter(anchor, m)
      /\ category \in {"retry", "blocked"} =>
             /\ due > clock
             /\ due <= clock + Greatest(Day, Period(plan.frequency))
  BY <1>1, DueWell DEF Categories
<1>. HIDE DEF due
<1>4. Least(failures, MaxFailures) \in 0..MaxFailures
  BY <1>1 DEF Least
<1>5. ScheduleTypeOK' /\ plan'.due = due
  BY <1>2, <1>3, <1>4 DEF ScheduleTypeOK
<1>6. ASSUME category \in {"ok", "extraction"}
      PROVE  AtTheNextAnchor
  <2>1. ASSUME NEW t \in (m + 1)..(due - 1), Comes(anchor, t)
        PROVE  FALSE
    <3>1. m \in Nat /\ t \in Int /\ t > m /\ t < due
      BY <1>1, <1>3
    <3>2. Setting(anchor)
      BY <1>1, AnchorsAreSettings
    <3>3. AnchorAfter(anchor, m) \in Int /\ AnchorAfter(anchor, m) <= t
      BY <2>1, <3>1, <3>2, NoneBefore, AnchorAfterIs
    <3>. QED
      BY <1>3, <1>6, <3>1, <3>3
  <2>. QED
    BY <2>1, <1>3, <1>5, <1>6 DEF AtTheNextAnchor
<1>7. category \in {"retry", "blocked"} => WithinADay
  BY <1>3, <1>5 DEF WithinADay
<1>. QED
  BY <1>5, <1>6, <1>7

LEMMA ScheduleInitially == ScheduleConstants /\ ScheduleInit => ScheduleTypeOK
<1> SUFFICES ASSUME ScheduleConstants, ScheduleInit PROVE ScheduleTypeOK
  OBVIOUS
<1>1. PICK f \in Frequencies :
          plan = [frequency |-> f, due |-> 0, started |-> 0, running |-> FALSE, failures |-> 0]
  BY DEF ScheduleInit
<1>2. MaxFailures \in Nat /\ Horizon \in Nat
  BY DEF ScheduleConstants
<1>3. 0 \in 0..MaxFailures /\ 0 \in 0..Horizon
  BY <1>2
<1>. QED
  BY <1>1, <1>3 DEF ScheduleInit, ScheduleTypeOK

LEMMA ScheduleStep ==
    ScheduleConstants /\ ScheduleTypeOK /\ [ScheduleNext]_scheduleVars => ScheduleTypeOK'
<1> SUFFICES ASSUME ScheduleConstants, ScheduleTypeOK, [ScheduleNext]_scheduleVars
             PROVE  ScheduleTypeOK'
  OBVIOUS
<1>1. CASE UNCHANGED scheduleVars
  BY <1>1 DEF scheduleVars, ScheduleTypeOK
<1>2. CASE BeginRun
  <2>1. clock \in Nat
    BY DEF ScheduleTypeOK, ScheduleConstants
  <2>. QED
    BY <1>2, <2>1 DEF BeginRun, ScheduleTypeOK
<1>3. CASE ChangeAnchor
  BY <1>3 DEF ChangeAnchor, ScheduleTypeOK
<1>4. CASE RunNow
  <2>1. Least(plan.due, clock) \in Nat
    BY DEF Least, ScheduleTypeOK
  <2>. QED
    BY <1>4, <2>1 DEF RunNow, ScheduleTypeOK
<1>5. CASE ScheduleTick
  BY <1>5 DEF ScheduleTick, ScheduleTypeOK, ScheduleConstants
<1>. QED
  BY <1>1, <1>2, <1>3, <1>4, <1>5, EndsWell DEF ScheduleNext

LEMMA RuleStep ==
    ScheduleConstants /\ ScheduleTypeOK
    => /\ EndRun("ok", 0) \/ EndRun("extraction", 0) => AtTheNextAnchor
       /\ \A hint \in RetryAfters \cup {0} : EndRun("retry", hint) => WithinADay
       /\ EndRun("blocked", 0) => WithinADay
BY EndsWell DEF Categories

LEMMA ScheduleBeside == [ContentNext]_contentVars => [ScheduleNext]_scheduleVars
BY DEF ContentNext, contentVars

\* A run that went well, or found nothing it could use, is followed by one
\* within the period and by the first anchor that comes more than a gap after
\* its start, whatever the clock on the wall does; a run that failed by one
\* within a day or a period (schedule.py: next_due, anchor_after).
THEOREM DueByRule == ContentSpec => DueByTheRule
<1>1. ContentInit => ScheduleTypeOK
  BY ScheduleInitially, ScheduleConstants DEF ContentInit
<1>2. ScheduleTypeOK /\ [ContentNext]_contentVars => ScheduleTypeOK'
  BY ScheduleBeside, ScheduleStep, ScheduleConstants
<1>3. ScheduleTypeOK /\ [ContentNext]_contentVars =>
      [/\ EndRun("ok", 0) \/ EndRun("extraction", 0) => AtTheNextAnchor
       /\ \A hint \in RetryAfters \cup {0} : EndRun("retry", hint) => WithinADay
       /\ EndRun("blocked", 0) => WithinADay]_scheduleVars
  BY RuleStep, ScheduleConstants
<1>. QED
  BY <1>1, <1>2, <1>3, PTL DEF ContentSpec, DueByTheRule

----------------------------------------------------------------------------
\* The parts together.

\* Every variable of every part keeps to its values.
THEOREM ContentTyped == ContentSpec => []ContentTypeOK
<1>. DEFINE Together == /\ moving \in Parts /\ ScheduleTypeOK /\ EngineInv /\ LegacyInv
                        /\ EvidenceInv /\ CatalogueInv /\ DigestInv
<1>1. ContentInit => Together
  BY ScheduleInitially, EngineInitially, LegacyInitially, EvidenceInitially,
     CatalogueInitially, DigestInitially, ScheduleConstants, EngineConstants,
     LegacyAssumption, EvidenceConstants, CatalogueAssumption, DigestAssumption
  DEF ContentInit
<1>2. Together /\ [ContentNext]_contentVars => Together'
  <2>. SUFFICES ASSUME Together, [ContentNext]_contentVars PROVE Together'
    OBVIOUS
  <2>1. moving' = moving
    BY DEF ContentNext, contentVars
  <2>2. ScheduleTypeOK' /\ EngineInv' /\ LegacyInv'
    BY ScheduleBeside, ScheduleStep, EngineBeside, EngineStep, LegacyBeside, LegacyStep,
       ScheduleConstants, EngineConstants, LegacyAssumption
  <2>3. EvidenceInv' /\ CatalogueInv' /\ DigestInv'
    BY EvidenceBeside, EvidenceStep, CatalogueBeside, CatalogueStep, DigestBeside,
       DigestStep, EvidenceConstants, CatalogueAssumption, DigestAssumption
  <2>. QED
    BY <2>1, <2>2, <2>3
<1>3. Together => ContentTypeOK
  BY DEF ContentTypeOK, EngineInv, LegacyInv, EvidenceInv, CatalogueInv, DigestInv
<1>. QED
  BY <1>1, <1>2, <1>3, PTL DEF ContentSpec
=============================================================================
