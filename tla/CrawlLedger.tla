---------------------------- MODULE CrawlLedger ----------------------------
(***************************************************************************)
(* What the crawl runtime promises, without leases, clocks, messages or    *)
(* workers: the crawl log as a ledger.  A source has a fence and an        *)
(* activation generation.  Opening a run raises the fence and ends the run *)
(* that was open before; a run ends once; only the newest run of a source, *)
(* opened under the activation still in force, commits, and its articles   *)
(* appear in the step that ends it.                                        *)
(***************************************************************************)
EXTENDS Naturals, Sequences

CONSTANT Sources

VARIABLES
    fence,    \* the fence of each source
    gen,      \* the activation generation of each source
    log,      \* the runs: source, fence and generation at their opening
    outcome,  \* "running", "success" or how the run failed
    store     \* the runs whose articles each source holds

vars == <<fence, gen, log, outcome, store>>

Init ==
    /\ fence = [s \in Sources |-> 0]
    /\ gen = [s \in Sources |-> 0]
    /\ log = <<>>
    /\ outcome = <<>>
    /\ store = [s \in Sources |-> <<>>]

\* A new run of s takes the place of any run of s that is still open.
Open(s) ==
    /\ fence' = [fence EXCEPT ![s] = @ + 1]
    /\ log' = Append(log, [source |-> s, fence |-> fence[s] + 1, gen |-> gen[s]])
    /\ outcome' = Append([i \in DOMAIN outcome |->
                             IF log[i].source = s /\ outcome[i] = "running"
                             THEN "lease_expired" ELSE outcome[i]], "running")
    /\ UNCHANGED <<gen, store>>

Fail(i) ==
    /\ outcome[i] = "running"
    /\ \E o \in {"failed", "blocked", "stale"} : outcome' = [outcome EXCEPT ![i] = o]
    /\ UNCHANGED <<fence, gen, log, store>>

Commit(i) ==
    LET s == log[i].source IN
    /\ outcome[i] = "running"
    /\ log[i].fence = fence[s]
    /\ log[i].gen = gen[s]
    /\ outcome' = [outcome EXCEPT ![i] = "success"]
    /\ store' = [store EXCEPT ![s] = Append(@, i)]
    /\ UNCHANGED <<fence, gen, log>>

\* Approve, roll back or retire a recipe.
Decide(s) ==
    /\ gen' = [gen EXCEPT ![s] = @ + 1]
    /\ UNCHANGED <<fence, log, outcome, store>>

Next ==
    \/ \E s \in Sources : Open(s) \/ Decide(s)
    \/ \E i \in DOMAIN log : Fail(i) \/ Commit(i)

Spec == Init /\ [][Next]_vars
=============================================================================
