----------------------------- MODULE Activation -----------------------------
(***************************************************************************)
(* What an administrator decides about one source: its permissions, its    *)
(* candidate recipes, previews of them as evidence, and which recipe the   *)
(* scheduled crawls use.  Edits of the source, grants and revocations,     *)
(* previews that run without a lock and decisions made on a page loaded    *)
(* earlier interleave; each form post ends in one transaction that holds   *)
(* the source's row.  What it reads without a lock is as of its first read *)
(* (repeatable read), which is before it waits for the row: an approval    *)
(* has two steps here.  For the others the two are the same.               *)
(* The recipe of a version never changes, so that it still validates and   *)
(* has its fingerprint; the schedule's part of a decision is in CrawlRun.  *)
(***************************************************************************)
EXTENDS Integers, Sequences, FiniteSets

CONSTANTS
    Manual,      \* versions that an administrator submits
    Learned,     \* versions that learning proposes
    Urls,        \* all that the fingerprint of a source takes in but is_active
    Fetches,     \* what a preview may come to: [status, content]
    None,
    MaxCaptures, \* bound on the previews that are saved
    MaxWork,     \* bound on changes, decisions and previews, together
    KeepReports  \* reports kept of a version (20)

Versions == Manual \cup Learned

ASSUME ActivationConstants ==
    /\ None \notin Versions
    /\ Manual \cap Learned = {}
    /\ MaxWork \in Nat /\ MaxCaptures \in Nat
    /\ \A f \in Fetches : f.status \in {"ready", "partial"}
    /\ Urls # {}
    /\ KeepReports \in Nat \ {0}

VARIABLES
    source,     \* news_source: is_active and the rest of its fingerprint
    profile,    \* crawl_source_profile
    policies,   \* crawl_policy_version, by generation
    submitted,  \* crawl_schema_version
    captures,   \* crawl_capture_manifest with its preview report, by sequence
    kept,       \* the captures whose report has not been pruned
    fresh,      \* the captures whose report and evidence are not yet a day old
    decisions,  \* crawl_schema_decision
    preview,    \* the preview that is running, or None
    request,    \* the approval that is being handled, or None
    form        \* what the administrator's page was rendered from

configVars == <<source, profile, policies, submitted>>
evidenceVars == <<captures, kept, fresh, preview>>
pageVars == <<request, form>>
activationVars == <<configVars, evidenceVars, decisions, pageVars>>

Sources == [active: BOOLEAN, url: Urls]
Profiles == [exists: BOOLEAN, gen: Nat, sgen: Nat, pgen: Nat,
             agen: Nat, active: Versions \cup {None}, previous: Versions \cup {None},
             asgen: Int]

Policies == [gen: Nat, action: {"grant", "revoke"}, sgen: Nat, fp: Sources]
\* policy 0 stands for hosts that were typed into the preview's form.
Previews == [version: Versions, gen: Nat, sgen: Nat, fp: Sources, policy: Nat]
Captures == [version: Versions, gen: Nat, sgen: Nat, fp: Sources, policy: Nat,
             status: {"ready", "partial", "stale"}, content: {f.content : f \in Fetches}]
Decisions == [action: {"approve", "rollback", "retire", "reject"}, version: Versions \cup {None},
              sgen: Nat, agen: Nat]

\* The report that is cited, 0 for a learned version, and what the page showed.
Requests == [version: Versions, report: Nat, agen: Nat]

NoProfile == [exists |-> FALSE, gen |-> 0, sgen |-> 0, pgen |-> 0,
              agen |-> 0, active |-> None, previous |-> None, asgen |-> -1]

Form == [source |-> source, gen |-> profile.gen, policy |-> Len(policies),
         agen |-> profile.agen, active |-> profile.active, previous |-> profile.previous]

Forms == [source: Sources, gen: 0 .. profile.gen, policy: 0 .. Len(policies), agen: 0 .. profile.agen,
          active: Versions \cup {None}, previous: Versions \cup {None}]

MayWork ==
    profile.gen + profile.agen + Len(captures)
        + Cardinality({d \in decisions : d.action = "reject"}) < MaxWork

TypeOK ==
    /\ source \in Sources
    /\ profile \in Profiles
    /\ policies \in Seq(Policies)
    /\ submitted \subseteq Versions
    /\ captures \in Seq(Captures)
    /\ kept \subseteq DOMAIN captures
    /\ fresh \subseteq DOMAIN captures
    /\ decisions \subseteq Decisions
    /\ preview \in Previews \cup {None}
    /\ request \in Requests \cup {None}
    /\ form \in Forms

Init ==
    /\ source = [active |-> TRUE, url |-> CHOOSE u \in Urls : TRUE]
    /\ profile = NoProfile
    /\ policies = <<>>
    /\ submitted = {}
    /\ captures = <<>>
    /\ kept = {}
    /\ fresh = {}
    /\ decisions = {}
    /\ preview = None
    /\ request = None
    /\ form = Form

-----------------------------------------------------------------------------
(* Permissions. *)

\* _source_policy.state of the latest record.  Documents are what they were
\* when they were saved, so that inputs() of a grant does not fail.
PolicyState ==
    LET record == policies[Len(policies)] IN
    IF policies = <<>> THEN IF profile.pgen = 0 THEN "unconfigured" ELSE "unavailable"
    ELSE IF record.gen # profile.pgen THEN "unavailable"
    ELSE IF record.action = "revoke" THEN "revoked"
    ELSE IF ~source.active \/ record.sgen # profile.sgen \/ record.fp # source THEN "stale"
    ELSE "effective"

\* matches_report: the report was fetched under the permission that is in
\* force, or no permission was ever recorded and none was then.
MatchesReport(policy) ==
    \/ PolicyState = "unconfigured" /\ policy = 0
    \/ PolicyState = "effective" /\ policy = Len(policies)

\* A change of the source's fingerprint starts new generations of its profile.
Bumped ==
    IF profile.exists THEN [profile EXCEPT !.gen = @ + 1, !.sgen = @ + 1] ELSE profile

\* source_toggle, or a source form that changes the fingerprint.
EditSource ==
    /\ MayWork
    /\ \/ source' = [source EXCEPT !.active = ~@]
       \/ \E u \in Urls \ {source.url} : source' = [source EXCEPT !.url = u]
    /\ profile' = Bumped
    /\ UNCHANGED <<policies, submitted, evidenceVars, decisions, pageVars>>

\* The policy form: a grant or a revocation, on the generation and the
\* fingerprint that its page showed.
SavePolicy(action) ==
    /\ MayWork
    /\ action = "grant" => source.active
    /\ form.gen = profile.gen /\ form.source = source
    /\ profile' = [profile EXCEPT !.exists = TRUE, !.gen = @ + 1, !.pgen = profile.gen + 1]
    /\ policies' = Append(policies, [gen |-> profile.gen + 1, action |-> action,
                                     sgen |-> profile.sgen, fp |-> source])
    /\ UNCHANGED <<source, submitted, evidenceVars, decisions, pageVars>>

-----------------------------------------------------------------------------
(* Candidates and previews. *)

Submit(v) ==
    /\ v \notin submitted
    /\ submitted' = submitted \cup {v}
    /\ profile' = [profile EXCEPT !.exists = TRUE]
    /\ UNCHANGED <<source, policies, evidenceVars, decisions, pageVars>>

\* The first half of preview(): what the engine is given is read under the
\* source's row lock, which is then released.
PreviewStart(v) ==
    /\ preview = None
    /\ MayWork /\ Len(captures) < MaxCaptures
    /\ v \in submitted
    /\ source.active
    /\ form.gen = profile.gen /\ form.source = source
    /\ \E p \in {0, Len(policies)} :
          /\ IF profile.pgen # 0 \/ policies # <<>>
             THEN PolicyState = "effective" /\ form.policy = Len(policies) /\ p # 0
             ELSE p = 0
          /\ preview' = [version |-> v, gen |-> profile.gen, sgen |-> profile.sgen,
                         fp |-> source, policy |-> p]
    /\ UNCHANGED <<configVars, captures, kept, fresh, decisions, pageVars>>

\* The newest KeepReports reports of a version survive the insertion of n.
Pruned(n, v) ==
    {m \in kept : \/ captures[m].version # v
                  \/ Cardinality({k \in kept : k > m /\ captures[k].version = v}) + 1 < KeepReports}
        \cup {n}

\* Mutant of PreviewEnd: the report is of the configuration at its end.
PreviewEndNow(fetch) ==
    LET n == Len(captures) + 1 IN
    /\ preview # None
    /\ captures' = Append(captures,
          [version |-> preview.version, gen |-> profile.gen, sgen |-> preview.sgen, fp |-> source,
           policy |-> Len(policies), content |-> fetch.content, status |-> fetch.status])
    /\ kept' = Pruned(n, preview.version)
    /\ fresh' = fresh \cup {n}
    /\ preview' = None
    /\ UNCHANGED <<configVars, decisions, pageVars>>

\* The second half: the report is saved with its manifest, as stale when the
\* source or its permission changed meanwhile.
PreviewEnd(fetch) ==
    LET n == Len(captures) + 1 IN
    /\ preview # None
    /\ captures' = Append(captures,
          [version |-> preview.version, gen |-> preview.gen, sgen |-> preview.sgen,
           fp |-> preview.fp, policy |-> preview.policy, content |-> fetch.content,
           status |-> IF preview.gen # profile.gen \/ preview.fp # source THEN "stale"
                     ELSE fetch.status])
    /\ kept' = Pruned(n, preview.version)
    /\ fresh' = fresh \cup {n}
    /\ preview' = None
    /\ UNCHANGED <<configVars, decisions, pageVars>>

\* The engine or the evidence store fails, or the web worker dies: no report.
PreviewFails ==
    /\ preview # None
    /\ preview' = None
    /\ UNCHANGED <<configVars, captures, kept, fresh, decisions, pageVars>>

\* A day goes by for the oldest report.
Age ==
    /\ fresh # {}
    /\ fresh' = {n \in fresh : \E m \in fresh : m < n}
    /\ UNCHANGED <<configVars, captures, kept, preview, decisions, pageVars>>

LoadForm ==
    /\ form' = Form
    /\ UNCHANGED <<configVars, evidenceVars, decisions, request>>

-----------------------------------------------------------------------------
(* Decisions. *)

\* report_is_current: nothing the preview depended on has changed since.
ReportIsCurrent(n) ==
    /\ captures[n].status # "stale"
    /\ source.active
    /\ captures[n].gen = profile.gen
    /\ captures[n].fp = source
    /\ MatchesReport(captures[n].policy)

Usable(n) ==
    /\ n \in fresh
    /\ captures[n].status = "ready"
    /\ captures[n].policy # 0
    /\ ReportIsCurrent(n)

Rejected(v) == \E d \in decisions : d.action = "reject" /\ d.version = v

\* The generation of activations that the page showed is the row's, under the
\* row locks.
Locked(agen) == profile.exists /\ agen = profile.agen

Decided(action, v, agen) ==
    decisions \cup {[action |-> action, version |-> v, sgen |-> profile.sgen, agen |-> agen]}

\* Mutant of Point: the generation of activations stays.
PointQuietly(new, old, asgen) ==
    profile' = [profile EXCEPT !.active = new, !.previous = old, !.asgen = asgen]

\* Every move of the two pointers is a new generation of activations.
Point(new, old, asgen) ==
    profile' = [profile EXCEPT !.active = new, !.previous = old, !.asgen = asgen, !.agen = @ + 1]

\* approve() begins: what it reads without a lock, the decisions among it, is as
\* of now.  A request that is to be refused in any case is left out.
ApproveBegins(v, n) ==
    /\ request = None
    /\ v \in submitted
    /\ Locked(form.agen)
    /\ ~Rejected(v)
    /\ request' = [version |-> v, report |-> n, agen |-> form.agen]
    /\ UNCHANGED <<configVars, evidenceVars, decisions, form>>

\* approve() once it holds the rows.
Approve ==
    /\ request # None
    /\ Locked(request.agen)
    /\ MayWork
    /\ source.active
    /\ PolicyState = "effective"
    /\ request.version # profile.active
    /\ Point(request.version, profile.active, profile.sgen)
    /\ decisions' = Decided("approve", request.version, profile.agen + 1)
    /\ request' = None
    /\ UNCHANGED <<source, policies, submitted, evidenceVars, form>>

\* A hand-written version is approved on the preview report that is cited.
ApproveManual ==
    /\ request # None
    /\ request.version \in Manual
    /\ Usable(request.report)
    /\ Approve

ApproveRefused ==
    /\ request # None
    /\ request' = None
    /\ UNCHANGED <<configVars, evidenceVars, decisions, form>>

\* The generations of a rejection are never read.
Reject(v) ==
    /\ Locked(form.agen)
    /\ MayWork
    /\ v \in submitted
    /\ v # profile.active
    /\ ~Rejected(v)
    /\ decisions' = decisions \cup {[action |-> "reject", version |-> v, sgen |-> 0, agen |-> 0]}
    /\ UNCHANGED <<configVars, evidenceVars, pageVars>>

\* The decisions that made v the active version.
Activations(v) == {d \in decisions : d.version = v /\ d.action \in {"approve", "rollback"}}

\* The last time v became active was in this generation of the source.
ApprovedHere(v) ==
    \E d \in Activations(v) :
        /\ \A e \in Activations(v) : e.agen <= d.agen
        /\ d.sgen = profile.sgen

Rollback ==
    /\ Locked(form.agen)
    /\ MayWork
    /\ profile.previous # None
    /\ ApprovedHere(profile.previous)
    /\ source.active
    /\ PolicyState = "effective"
    /\ Point(profile.previous, profile.active, profile.sgen)
    /\ decisions' = Decided("rollback", profile.previous, profile.agen + 1)
    /\ UNCHANGED <<source, policies, submitted, evidenceVars, pageVars>>

\* Mutant of Retire: the profile starts afresh.
RetireAfresh ==
    /\ Locked(form.agen)
    /\ MayWork
    /\ profile.active # None
    /\ profile' = [profile EXCEPT !.active = None, !.previous = profile.active, !.asgen = -1, !.agen = 0]
    /\ decisions' = Decided("retire", None, 0)
    /\ UNCHANGED <<source, policies, submitted, evidenceVars, pageVars>>

Retire ==
    /\ Locked(form.agen)
    /\ MayWork
    /\ profile.active # None
    /\ Point(None, profile.active, -1)
    /\ decisions' = Decided("retire", None, profile.agen + 1)
    /\ UNCHANGED <<source, policies, submitted, evidenceVars, pageVars>>

\* Mutant of RouteOf: an activation outlives the source it was made for.
RouteUnbound ==
    CASE profile.active = None -> "legacy"
      [] PolicyState # "effective" -> "policy_unavailable"
      [] OTHER -> "schema"

\* route(): what a run that starts now would use.
RouteOf ==
    CASE profile.active = None -> "legacy"
      [] profile.asgen # profile.sgen -> "schema_stale"
      [] PolicyState # "effective" -> "policy_unavailable"
      [] OTHER -> "schema"

Configure == EditSource \/ (\E a \in {"grant", "revoke"} : SavePolicy(a)) \/ LoadForm
Preview ==
    \/ \E v \in Versions : PreviewStart(v)
    \/ \E f \in Fetches : PreviewEnd(f)
    \/ PreviewFails \/ Age
Decide ==
    \/ \E n \in kept : /\ captures[n].version \in Manual /\ Usable(n)
                      /\ ApproveBegins(captures[n].version, n)
    \/ ApproveManual \/ ApproveRefused
    \/ \E v \in Versions : Reject(v)
    \/ Rollback \/ Retire

ActivationNext == Configure \/ (\E v \in Manual : Submit(v)) \/ Preview \/ Decide

-----------------------------------------------------------------------------
(* Properties. *)

\* A run is given a recipe only when that recipe was approved by an
\* administrator since the source last changed and a permission is in force
\* that was granted for the source as it is: an edit there and back, a
\* rollback across it, or a retired recipe never routes (activation.route).
RoutedWasApprovedHere ==
    RouteOf = "schema" =>
        /\ \E d \in decisions : /\ d.action = "approve"
                                /\ d.version = profile.active
                                /\ d.sgen = profile.sgen
        /\ source.active
        /\ policies[Len(policies)].fp = source

\* The pointers only move under an administrator whose page showed them as
\* they are (activation._locked): of two decisions taken on the same page one
\* is refused.
DecidedOnWhatWasShown ==
    [][ <<profile.active, profile.previous>>' # <<profile.active, profile.previous>> =>
            <<form.active, form.previous>> = <<profile.active, profile.previous>> ]_activationVars

\* A report that an approval may cite was fetched after the last change of the
\* source: a preview that was under way during an edit there and back, and a
\* new grant after it, is no evidence (crawl_config.preview reads before it
\* fetches and compares after, activation.report_is_current).
UsableIsUntouched ==
    \A n \in kept : Usable(n) => captures[n].sgen = profile.sgen
=============================================================================
