------------------------------ MODULE Services ------------------------------
(***************************************************************************)
(* What the workers of the llm and crawl queues do below their tasks, as   *)
(* far as it must come to an end: the jobs of articles and of companies,   *)
(* LLM calls and their breaker, and the pages of a run.  They share no     *)
(* state in these models: in every behaviour one of them moves, and the    *)
(* others rest in an initial state.  What one of them does is the same     *)
(* beside the others.                                                      *)
(***************************************************************************)
EXTENDS CompanyJobs, ProviderCalls, Fetching

CONSTANTS Articles, Workers, NoOwner, Lifetime, RunningLimit, Spacings, Levels

VARIABLES
    moving,                                          \* the part that moves
    article, ingest, jobs, queue, pc, run, paid      \* of ArticleJobs

articleVars == <<article, ingest, jobs, queue, pc, run, paid>>
ArticleWork == INSTANCE ArticleJobs

ASSUME ArticleConstants == ArticleWork!JobConstants

Parts == {"company", "calls", "fetching", "articles"}

servicesVars == <<moving, companyVars, callVars, fetchVars, articleVars>>

ServicesInit ==
    /\ moving \in Parts
    /\ CompanyInit /\ CallInit /\ FetchInit
    /\ ArticleWork!Init
    /\ moving # "articles" => \A a \in Articles : article[a].level = 0

ServicesNext ==
    \/ /\ moving = "company" /\ CompanyNext
       /\ UNCHANGED <<moving, callVars, fetchVars, articleVars>>
    \/ /\ moving = "calls" /\ CallNext
       /\ UNCHANGED <<moving, companyVars, fetchVars, articleVars>>
    \/ /\ moving = "fetching" /\ FetchNext
       /\ UNCHANGED <<moving, companyVars, callVars, articleVars>>
    \/ /\ moving = "articles" /\ ArticleWork!Next
       /\ UNCHANGED <<moving, companyVars, callVars, fetchVars>>

\* Nothing of a part that rests is enabled but the clock of the breaker, which
\* has nothing to do: its fairness asks for nothing.
ServicesSpec ==
    /\ ServicesInit /\ [][ServicesNext]_servicesVars
    /\ CompanyFairness /\ CallFairness /\ FetchFairness /\ ArticleWork!Fairness

\* Every variable of every part keeps to its values.
ServicesTypeOK ==
    /\ moving \in Parts
    /\ CompanyTypeOK /\ CallTypeOK /\ FetchTypeOK /\ ArticleWork!TypeOK

\* Jobs that pay for a company or an article are closed in the end, though
\* every message be lost and every worker die, no provider stays blocked for
\* ever, and no fetch of a run goes on for ever.
ServicesEnd == CompanyJobsEnd /\ ArticleWork!JobsEnd /\ ProvidersTriedAgain /\ FetchesEnd
=============================================================================
