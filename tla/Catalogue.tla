----------------------------- MODULE Catalogue -----------------------------
(***************************************************************************)
(* The companies and the links of articles to them.  The application of an *)
(* article's results finds a company by the slug of its name, then by an   *)
(* alias, and creates what it does not find (pipeline.py); administrators  *)
(* add, edit, merge and delete companies (admin.py).  A merge takes no     *)
(* lock: it reads two companies and their links and writes in one          *)
(* transaction.  What others commit in between, other merges among them,   *)
(* is overwritten, or makes it fail: a row it updates is gone, two links   *)
(* of an article would lead to one company, or the foreign key of a link   *)
(* refuses the deletion.                                                   *)
(* The form of a company is sent some time after it was shown.  Facts of   *)
(* companies and of links (review, website, mentions, sentiment) are left  *)
(* out, and what only changes them.                                        *)
(***************************************************************************)
EXTENDS Integers, FiniteSetsExt, Functions

CONSTANTS
    Names,          \* spellings of company names
    SlugOf, FoldOf, \* slugify(name) and name.casefold()
    Articles,
    Mergers,        \* requests that merge; the web server runs several at once
    MaxCompanies, MaxReadings, MaxActs  \* bounds on companies, results and acts

\* Names that differ in case only have one slug.
ASSUME CatalogueAssumption ==
    /\ {MaxCompanies, MaxReadings, MaxActs} \subseteq Nat
    /\ IsFiniteSet(Names)
    /\ \A m, n \in Names : FoldOf[m] = FoldOf[n] => SlugOf[m] = SlugOf[n]

VARIABLES
    row,      \* the companies, by id
    created,  \* the ids given so far: none is given again
    links,    \* article_company: the company of each row
    form,     \* the form of a company that is open in a browser
    merge,    \* the merges under way: what their transactions have read
    led,      \* history: the company that a name of an article led to
    absorbed, \* history: the company that a merge gave a name to
    torn,     \* history: articles of which two merges of one company took a link
    readings, acts

catalogueVars == <<row, created, links, form, merge, led, absorbed, torn, readings, acts>>

Ids == 1..MaxCompanies
NoFirm == 0
Firm == [name: Names, aliases: SUBSET Names]
\* A row of article_company keeps its article: it is known by that, by the
\* company it was made for and by the reading that made it.
Link == Articles \X Ids \X (1..MaxReadings)
NoForm == [id |-> NoFirm]
NoMerge == [target |-> NoFirm]
\* Two companies with their names as read, the links of the source that go to
\* the target and those that go, and (history) whether someone has changed the
\* names of one of the two since.
Merge == [target: Ids, source: Ids, names: SUBSET Names, others: SUBSET Names,
          moves: SUBSET Link, drops: SUBSET Link, crossed: BOOLEAN]

Present == DOMAIN row
Linked == DOMAIN links
ArticleOf(l) == l[1]
LinksOf(i) == {l \in Linked : links[l] = i}
NamesOf(i) == {row[i].name} \cup row[i].aliases

CatalogueInit ==
    /\ row = << >> /\ created = 0 /\ links = << >>
    /\ form = NoForm /\ merge = [m \in Mergers |-> NoMerge]
    /\ led = [a \in Articles |-> [n \in Names |-> NoFirm]]
    /\ absorbed = [n \in Names |-> NoFirm] /\ torn = {}
    /\ readings = 0 /\ acts = 0

(***************************************************************************)
(* Results of an article.                                                  *)
(***************************************************************************)
BySlug(n) == {i \in Present : SlugOf[row[i].name] = SlugOf[n]}
ByAlias(n) == {i \in Present : \E m \in row[i].aliases : FoldOf[m] = FoldOf[n]}

\* The company that a name leads to: the slug wins over an alias.
Resolve(n) ==
    IF BySlug(n) # {} THEN Min(BySlug(n))
    ELSE IF ByAlias(n) # {} THEN Min(ByAlias(n)) ELSE NoFirm

\* Of the entries with one slug, the first is kept.
Extractions == {said \in SUBSET Names :
    \A m, n \in said : SlugOf[m] = SlugOf[n] => m = n}

\* One transaction; in a race for a slug or with a deletion it fails and leaves
\* nothing.  With force the links of earlier results go first, which are all
\* there are: nothing else makes one.  Without, the article was upgraded since,
\* and they stay.
Apply(a, said, force) ==
    LET fresh == {n \in said : Resolve(n) = NoFirm}
        ids == created + 1 .. created + Cardinality(fresh)
    IN  /\ readings < MaxReadings /\ readings' = readings + 1
        /\ ids \subseteq Ids /\ created' = created + Cardinality(fresh)
        /\ \E given \in Bijection(fresh, ids) :
              LET to(n) == IF n \in fresh THEN given[n] ELSE Resolve(n)
                  old == {l \in Linked : force /\ ArticleOf(l) = a}
                  new == {<<a, to(n), readings'>> : n \in {m \in said :
                             \A l \in Linked \ old : ~(ArticleOf(l) = a /\ links[l] = to(m))}}
              IN  /\ row' = [i \in Present \cup ids |->
                         IF i \in Present THEN row[i]
                         ELSE [name |-> CHOOSE n \in fresh : given[n] = i, aliases |-> {}]]
                  /\ links' = [l \in (Linked \ old) \cup new |-> IF l \in new THEN l[2] ELSE links[l]]
                  /\ led' = [led EXCEPT ![a] = [n \in Names |->
                         IF n \in said THEN to(n) ELSE IF force THEN NoFirm ELSE @[n]]]
        /\ UNCHANGED <<form, merge, absorbed, torn, acts>>

(***************************************************************************)
(* Administrators.                                                         *)
(***************************************************************************)
Acts == acts < MaxActs /\ acts' = acts + 1

AddByHand(n, aliases) ==
    /\ Acts
    /\ created < MaxCompanies /\ created' = created + 1
    /\ BySlug(n) = {} /\ ByAlias(n) = {}
    /\ row' = [i \in Present \cup {created'} |->
                  IF i \in Present THEN row[i] ELSE [name |-> n, aliases |-> aliases]]
    /\ UNCHANGED <<links, form, merge, led, absorbed, torn, readings>>

\* A form that is left without being sent was as good as not opened.
OpenForm(i) ==
    /\ acts < MaxActs /\ form = NoForm /\ i \in Present
    /\ form' = [id |-> i, shown |-> row[i]]
    /\ UNCHANGED <<row, created, links, merge, led, absorbed, torn, readings, acts>>

\* Name and aliases are sent as shown, or one of them changed.
Entries(shown) ==
    {shown} \cup {[shown EXCEPT !.name = n] : n \in Names}
            \cup {[shown EXCEPT !.aliases = s] : s \in {{}, Names}}

\* Merges under way that have read a company whose names someone changes now.
Crossing(i) == [m \in Mergers |->
    IF merge[m] # NoMerge /\ i \in {merge[m].target, merge[m].source}
    THEN [merge[m] EXCEPT !.crossed = TRUE] ELSE merge[m]]

\* The names of a company are what the form says, its alias or not.
SendForm(sent) ==
    /\ Acts
    /\ form # NoForm /\ form.id \in Present /\ sent \in Entries(form.shown)
    /\ SlugOf[sent.name] # SlugOf[row[form.id].name] => BySlug(sent.name) = {}
    /\ row' = [row EXCEPT ![form.id] = sent]
    /\ form' = NoForm
    /\ merge' = IF sent = row[form.id] THEN merge ELSE Crossing(form.id)
    /\ absorbed' = [n \in Names |-> IF absorbed[n] = form.id /\ n \notin sent.aliases THEN NoFirm ELSE absorbed[n]]
    /\ UNCHANGED <<created, links, led, torn, readings>>

\* Forgotten by the histories too.
Forgotten(i) ==
    /\ led' = [a \in Articles |-> [n \in Names |-> IF led[a][n] = i THEN NoFirm ELSE led[a][n]]]
    /\ absorbed' = [n \in Names |-> IF absorbed[n] = i THEN NoFirm ELSE absorbed[n]]

Delete(i) ==
    /\ Acts /\ i \in Present
    /\ links' = Restrict(links, Linked \ LinksOf(i))
    /\ row' = Restrict(row, Present \ {i})
    /\ Forgotten(i)
    /\ UNCHANGED <<created, form, merge, torn, readings>>

(***************************************************************************)
(* A merge.                                                                *)
(***************************************************************************)
\* It moves the links of articles that the target does not have.
MergeReads(m, target, source) ==
    LET known == {ArticleOf(l) : l \in LinksOf(target)}
        moves == {l \in LinksOf(source) : ArticleOf(l) \notin known}
    IN  /\ Acts /\ merge[m] = NoMerge
        /\ target # source /\ {target, source} \subseteq Present
        /\ merge' = [merge EXCEPT ![m] =
               [target |-> target, source |-> source, names |-> row[target].aliases, others |-> NamesOf(source),
                moves |-> moves, drops |-> LinksOf(source) \ moves, crossed |-> FALSE]]
        /\ UNCHANGED <<row, created, links, form, led, absorbed, torn, readings>>

\* The mutant adds to the list that was loaded: nothing is written.
GatheredInPlace(names, others) == names
Gathered(names, others) == names \cup others

\* What the links become.
Merged(m) == [l \in Linked \ merge[m].drops |-> IF l \in merge[m].moves THEN merge[m].target ELSE links[l]]

\* The list of aliases is written when it is another than the one that was read.
Writes(m) == Gathered(merge[m].names, merge[m].others) # merge[m].names
AliasesAfter(m) ==
    IF Writes(m) THEN Gathered(merge[m].names, merge[m].others) ELSE row[merge[m].target].aliases

\* What the transaction updates is there, an article has one link to a
\* company, and the source has none left.
MergeStands(m) ==
    /\ merge[m].moves \subseteq Linked
    /\ merge[m].target \in Present \/ (merge[m].moves = {} /\ ~Writes(m))
    /\ \A k, l \in DOMAIN Merged(m) :
          k # l /\ ArticleOf(k) = ArticleOf(l) => Merged(m)[k] # Merged(m)[l]
    /\ merge[m].source \notin Range(Merged(m))

\* The links that another merge took from the source first.
Torn(m) == {ArticleOf(l) : l \in {k \in Linked \cap (merge[m].moves \cup merge[m].drops) : links[k] # merge[m].source}}

\* The names that the source has had since it was read go to the target, and
\* those that were merged into either before.  A merge that was crossed has
\* forgotten the ones it did not read.
Absorbs(m) ==
    LET target == merge[m].target
        source == merge[m].source
        given == merge[m].others \cup (IF source \in Present THEN NamesOf(source) ELSE {})
                 \cup {n \in Names : absorbed[n] = target}
        lost == IF merge[m].crossed THEN Names \ AliasesAfter(m) ELSE {}
    IN  absorbed' = [n \in Names |->
            IF target \in Present /\ n \in given \ lost THEN target
            ELSE IF absorbed[n] \in {source, target} THEN NoFirm ELSE absorbed[n]]

\* A source that is gone is deleted once more, without an error.
MergeCommits(m) ==
    LET target == merge[m].target
        source == merge[m].source
    IN  /\ merge[m] # NoMerge /\ MergeStands(m)
        /\ links' = Merged(m)
        /\ row' = [i \in Present \ {source} |->
                      IF i = target THEN [row[i] EXCEPT !.aliases = AliasesAfter(m)] ELSE row[i]]
        /\ led' = [a \in Articles |-> [n \in Names |->
               IF led[a][n] # source THEN led[a][n] ELSE IF target \in Present THEN target ELSE NoFirm]]
        /\ torn' = torn \cup Torn(m) /\ Absorbs(m)
        /\ merge' = [IF Writes(m) THEN Crossing(target) ELSE merge EXCEPT ![m] = NoMerge]
        /\ UNCHANGED <<created, form, readings, acts>>

\* It does not stand, meets another one's locks, or loses its connection.
MergeFails(m) ==
    /\ merge[m] # NoMerge
    /\ merge' = [merge EXCEPT ![m] = NoMerge]
    /\ UNCHANGED <<row, created, links, form, led, absorbed, torn, readings, acts>>

CatalogueNext ==
    \/ \E a \in Articles, said \in Extractions, force \in BOOLEAN : Apply(a, said, force)
    \/ \E n \in Names, aliases \in {{}, Names} : AddByHand(n, aliases)
    \/ \E i \in Ids : OpenForm(i) \/ Delete(i)
    \/ form # NoForm /\ \E sent \in Entries(form.shown) : SendForm(sent)
    \/ \E m \in Mergers : \/ \E target, source \in Ids : MergeReads(m, target, source)
                         \/ MergeCommits(m) \/ MergeFails(m)

(***************************************************************************)
(* Properties.                                                             *)
(***************************************************************************)
\* Every variable keeps to its values.
CatalogueTypeOK ==
    /\ created \in 0..MaxCompanies /\ Present \subseteq 1..created
    /\ row \in [Present -> Firm]
    /\ links \in [Linked -> Ids] /\ \A l \in Linked : l \in Link /\ l[3] <= readings
    /\ form = NoForm \/ (form.id \in Ids /\ form.shown \in Firm)
    /\ merge \in [Mergers -> {NoMerge} \cup Merge]
    /\ led \in [Articles -> [Names -> Ids \cup {NoFirm}]]
    /\ absorbed \in [Names -> Ids \cup {NoFirm}] /\ torn \subseteq Articles
    /\ readings \in 0..MaxReadings /\ acts \in 0..MaxActs

\* No two companies share a slug, whatever was created, renamed and merged.
OneSlugEach == \A i, j \in Present : SlugOf[row[i].name] = SlugOf[row[j].name] => i = j

\* An article stays linked to the company its results named, wherever merges
\* have taken that company, until it is deleted: no merge that crosses new
\* results, a deletion or another merge loses a link.  Excepted are articles of
\* which two merges of the same company took a link, the second from the first.
LinksFollow == \A a \in Articles \ torn, n \in Names :
    led[a][n] # NoFirm => \E l \in LinksOf(led[a][n]) : ArticleOf(l) = a

\* The names of a company that was merged away stay names of the company it
\* was merged into, and of what that one is merged into, until someone takes
\* them out: the next article to use one of them finds it there, unless
\* another company answers to the name as well.  So it is though companies are
\* renamed and merged at any time, with one exception: what someone writes to
\* the names of one of the two companies between a merge's read of them and its
\* commit is lost, be it a form or another merge into the same company.
MergedNamesFound == \A n \in Names : absorbed[n] # NoFirm =>
    Resolve(n) = absorbed[n] \/ \E i \in Present \ {absorbed[n]} : i \in BySlug(n) \cup ByAlias(n)

\* The catalogue knows each slug once, and loses no link and no merged name but
\* where merges cross as LinksFollow and MergedNamesFound say.
CatalogueKeeps == OneSlugEach /\ LinksFollow /\ MergedNamesFound
=============================================================================
