------------------------------ MODULE Holdout ------------------------------
(***************************************************************************)
(* Validation of learned recipes (validation.py), next to Activation: a    *)
(* candidate is frozen when learning finishes, and judged once, on the     *)
(* first capture of its base version that is made after that.  What the    *)
(* model was shown, and what earlier candidates were judged on, taints a   *)
(* capture.  The evaluation runs in a web worker between two transactions, *)
(* while sessions of learning, edits and other validations go on, and the  *)
(* worker may die.                                                         *)
(* The sessions themselves are in Learning; here they show documents and   *)
(* freeze candidates.  A capture's evidence is lost with its report's age. *)
(***************************************************************************)
EXTENDS Activation

VARIABLES
    holdout,  \* crawl_validation_report of each learned version
    working,  \* the learned versions that a web worker is evaluating
    exposed   \* the captures whose documents were shown to a model

holdoutVars == <<holdout, working, exposed>>
vars == <<activationVars, holdoutVars>>

Terminal == {"passed", "failed", "inconclusive"}
States == Terminal \cup {"none", "awaiting_evidence", "running"}

\* What a capture fetched: documents with their URLs and visible texts, in the
\* roles that the base recipe gives them.  Two documents with the same bytes
\* have the same text.
Docs(n) == captures[n].content.lists \cup captures[n].content.details
Details(n) == captures[n].content.details

\* train is the capture that the candidate was made from, whose version is the
\* base; it holds the frozen configuration.  sample is what was selected.
Holdouts == [state: States, train: Nat, cutoff: Nat, capture: Nat, sequence: Nat,
             sampled: BOOLEAN, late: BOOLEAN]
NoHoldout == [state |-> "none", train |-> 0, cutoff |-> 0, capture |-> 0, sequence |-> 0,
              sampled |-> FALSE, late |-> FALSE]

\* Type correctness of a source's configuration and of the validations.
HoldoutTypeOK ==
    /\ TypeOK
    /\ holdout \in [Learned -> Holdouts]
    /\ working \subseteq Learned
    /\ exposed \subseteq DOMAIN captures
    /\ \A l \in Learned : {holdout[l].train, holdout[l].capture} \subseteq {0} \cup DOMAIN captures

HoldoutInit ==
    /\ Init
    /\ holdout = [l \in Learned |-> NoHoldout]
    /\ working = {}
    /\ exposed = {}

-----------------------------------------------------------------------------
(* Learning, as validation sees it. *)

\* The source and its permission are what they were when capture n was fetched.
Unchanged(n) ==
    /\ captures[n].gen = profile.gen /\ captures[n].sgen = profile.sgen
    /\ captures[n].fp = source
    /\ PolicyState = "effective" /\ captures[n].policy = Len(policies)

\* learning.inputs
Learnable(n) == Unchanged(n) /\ n \in fresh

\* A claimed round of a session on capture n: its pages may reach the model.
Show(n) ==
    /\ Learnable(n)
    /\ exposed' = exposed \cup {n}
    /\ UNCHANGED <<activationVars, holdout, working>>

\* learning.finish makes a candidate of l, and freeze its validation.
Freeze(l, n) ==
    /\ l \notin submitted
    /\ n \in exposed /\ Learnable(n)
    /\ \A m \in Learned : holdout[m].train # n
    /\ submitted' = submitted \cup {l}
    /\ holdout' = [holdout EXCEPT ![l] = [NoHoldout EXCEPT !.state = "awaiting_evidence",
                                             !.train = n, !.cutoff = Len(captures)]]
    /\ UNCHANGED <<source, profile, policies, evidenceVars, decisions, pageVars, working, exposed>>

-----------------------------------------------------------------------------
(* Validation. *)

\* _authority: what was frozen still holds.
Authority(l) == Unchanged(holdout[l].train)

\* _first: the captures of the base after the freeze, whatever they hold.
Later(l) == {n \in DOMAIN captures : /\ n > holdout[l].cutoff
                                     /\ captures[n].version = captures[holdout[l].train].version}
First(l) == CHOOSE n \in Later(l) : \A m \in Later(l) : n <= m

\* _samples: the selected capture belongs to the configuration that was frozen,
\* and its evidence can be loaded.
Samples(l, n) == Unchanged(n) /\ n \in fresh

\* All that any model was shown, and all that was selected earlier.
Seen(l, sequence) ==
    UNION ({Docs(n) : n \in exposed}
           \cup {Docs(holdout[m].capture) : m \in {m \in Learned : /\ holdout[m].sampled
                                                                   /\ holdout[m].sequence < sequence}})

Texts(docs) == {d.text : d \in docs}
Links(docs) == {d.url : d \in docs}

\* _tainted: no document may have been seen, and no article's address once the
\* evaluation has told articles from lists.
Tainted(l, n, sequence, roles) ==
    LET seen == Seen(l, sequence) IN
    \/ Texts(Docs(n)) \cap Texts(seen) # {}
    \/ roles /\ Links(Details(n)) \cap Links(seen) # {}

NextSelection == Cardinality({m \in Learned : holdout[m].sequence > 0}) + 1

\* run(), first transaction: the selection is made, whatever comes of it.
Select(l) ==
    LET n == First(l)
        k == NextSelection
        sampled == n \in kept /\ Samples(l, n)
        good == sampled /\ ~Tainted(l, n, k, FALSE)
    IN /\ holdout[l].state = "awaiting_evidence"
       /\ Authority(l)
       /\ Later(l) # {}
       /\ holdout' = [holdout EXCEPT ![l] = [@ EXCEPT !.capture = n, !.sequence = k, !.sampled = sampled,
                                                !.state = IF good THEN "running" ELSE "inconclusive"]]
       /\ working' = IF good THEN working \cup {l} ELSE working
       /\ UNCHANGED <<activationVars, exposed>>

Save(l, result) == holdout' = [holdout EXCEPT ![l].state = result]

\* Mutants of Finish: what was shown meanwhile, or how the row is meanwhile, is
\* not asked.
FinishUnchecked(l, result, roles) ==
    /\ l \in working
    /\ working' = working \ {l}
    /\ IF holdout[l].state # "running" THEN UNCHANGED holdout
       ELSE IF Authority(l) /\ Samples(l, holdout[l].capture) /\ ~holdout[l].late
       THEN Save(l, result)
       ELSE Save(l, "inconclusive")
    /\ UNCHANGED <<activationVars, exposed>>

FinishAnyway(l, result, roles) ==
    /\ l \in working
    /\ working' = working \ {l}
    /\ Save(l, IF /\ Authority(l) /\ Samples(l, holdout[l].capture)
                  /\ ~Tainted(l, holdout[l].capture, holdout[l].sequence, roles)
               THEN result ELSE "inconclusive")
    /\ UNCHANGED <<activationVars, exposed>>

\* run(), last transaction.
Finish(l, result, roles) ==
    /\ l \in working
    /\ working' = working \ {l}
    /\ IF holdout[l].state # "running" THEN UNCHANGED holdout
       ELSE IF /\ Authority(l) /\ Samples(l, holdout[l].capture) /\ ~holdout[l].late
               /\ ~Tainted(l, holdout[l].capture, holdout[l].sequence, roles)
       THEN Save(l, result)
       ELSE Save(l, "inconclusive")
    /\ UNCHANGED <<activationVars, exposed>>

\* _evaluate tells the roles of the documents unless it gives up before.
Evaluated(l) ==
    \/ \E result \in Terminal : Finish(l, result, TRUE)
    \/ Finish(l, "inconclusive", FALSE)

WorkerDies(l) ==
    /\ l \in working
    /\ working' = working \ {l}
    /\ UNCHANGED <<activationVars, holdout, exposed>>

\* Thirty seconds after the selection.
Late(l) ==
    /\ holdout[l].state = "running"
    /\ ~holdout[l].late
    /\ holdout' = [holdout EXCEPT ![l].late = TRUE]
    /\ UNCHANGED <<activationVars, working, exposed>>

\* Mutant of Expire: a validation that still has its worker is waited for.
ExpireIdle(l) ==
    /\ holdout[l].state = "running" /\ holdout[l].late /\ l \in working
    /\ Save(l, "inconclusive")
    /\ UNCHANGED <<activationVars, working, exposed>>

\* expire(), from the recovery of learning.
Expire(l) ==
    /\ holdout[l].state = "running" /\ holdout[l].late
    /\ Save(l, "inconclusive")
    /\ UNCHANGED <<activationVars, working, exposed>>

\* view() within approve(): the state and what was seen are as of the request's
\* first read, the configuration and the evidence as of the decision.
ApproveLearnedBegins(l) ==
    /\ holdout[l].state = "passed"
    /\ ~Tainted(l, holdout[l].capture, holdout[l].sequence, TRUE)
    /\ ApproveBegins(l, 0)
    /\ UNCHANGED holdoutVars

ApproveLearned ==
    /\ request # None
    /\ request.version \in Learned
    /\ Authority(request.version)
    /\ Samples(request.version, holdout[request.version].capture)
    /\ Approve
    /\ UNCHANGED holdoutVars

Validation(l) ==
    \/ Select(l) \/ Evaluated(l) \/ WorkerDies(l) \/ Late(l) \/ Expire(l)
    \/ ApproveLearnedBegins(l)

HoldoutNext ==
    \/ ActivationNext /\ UNCHANGED holdoutVars
    \/ \E n \in DOMAIN captures : Show(n) \/ (\E l \in Learned : Freeze(l, n))
    \/ \E l \in Learned : Validation(l)
    \/ ApproveLearned

\* The clock does not stop, and recovery runs every minute.
HoldoutSpec ==
    /\ HoldoutInit /\ [][HoldoutNext]_vars
    /\ \A l \in Learned : WF_vars(Late(l)) /\ WF_vars(Expire(l))

-----------------------------------------------------------------------------
(* Properties. *)

\* Two captures have no text in common, and no article of the first one is
\* linked to in the second.
Apart(n, o) ==
    /\ Texts(Docs(n)) \cap Texts(Docs(o)) = {}
    /\ Links(Details(n)) \cap Links(Docs(o)) = {}

\* A candidate passes only on documents that its own training did not show and
\* no earlier candidate was judged on, though sessions and validations overlap,
\* and the roles of documents are known only at the end (validation._tainted).
PassedIsUnseen ==
    \A l \in Learned : holdout[l].state = "passed" =>
        /\ Apart(holdout[l].capture, holdout[l].train)
        /\ \A m \in Learned : holdout[m].sampled /\ holdout[m].sequence < holdout[l].sequence =>
              Apart(holdout[l].capture, holdout[m].capture)

\* A verdict is given once: a worker that comes back after its validation was
\* expired does not turn it round (validation.run, :349).  And when it lets a
\* candidate pass, no session has shown a model any of the documents by then,
\* though sessions go on while the worker evaluates (:356).
VerdictStands ==
    [][\A l \in Learned :
          /\ holdout[l].state \in Terminal => holdout'[l] = holdout[l]
          /\ holdout[l].state # "passed" /\ holdout'[l].state = "passed" =>
                \A o \in exposed : Apart(holdout[l].capture, o)]_vars

\* Every selection comes to a verdict, though web workers die with it
\* (validation.expire).
ValidationsEnd ==
    \A l \in Learned : (holdout[l].state = "running") ~> (holdout[l].state \in Terminal)
=============================================================================
