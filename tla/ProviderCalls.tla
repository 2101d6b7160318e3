--------------------------- MODULE ProviderCalls ---------------------------
(***************************************************************************)
(* LLM requests of several workers (client.py), in the order of the routes *)
(* (routing.py), and the circuit breaker that they share in Redis          *)
(* (circuit_breaker.py).  Every Redis command is a step of its own, so     *)
(* that one worker's failure and another's success interleave.  The price, *)
(* the admission and the number of tries of a request are in LLMBudget.    *)
(***************************************************************************)
EXTENDS Integers, Sequences, FiniteSets

CONSTANTS
    Callers,    \* workers, each with one request at a time
    Routes,     \* llm_config rows, for one task
    Threshold,  \* FAILURE_THRESHOLD
    Recovery,   \* RECOVERY_TIMEOUT
    Successes,  \* SUCCESS_THRESHOLD
    KeyLife     \* every key is set to expire (3600 s)

ASSUME CallConstants ==
    /\ {Threshold, Recovery, Successes, KeyLife} \subseteq Nat \ {0}
    /\ KeyLife > Recovery
    /\ IsFiniteSet(Routes)
    /\ \A r \in Routes : r.role \in {"primary", "fallback", "disabled"}
                       /\ {r.priority, r.cost, r.id} \subseteq Nat
    /\ \A r, s \in Routes : r.id = s.id => r = s

VARIABLES
    failures,   \* cb:<provider>:failures
    opened,     \* cb:<provider>:opened_at, as the time since, Never for the number 0
    halfOpen,   \* cb:<provider>:ho_successes
    caller      \* what each worker is at

callVars == <<failures, opened, halfOpen, caller>>

Providers == {r.provider : r \in Routes}
Never == -1
Steps == {"idle", "look", "lookOpened", "call", "bad", "badCount", "badOpen", "badHalf",
          "good", "goodHalf", "goodCount", "close", "closeOpened", "closeHalf", "reset"}
\* A key and the time it has left; absent at 0.
Absent == [value |-> 0, left |-> 0]
Key(v) == [value |-> v, left |-> KeyLife]

(***************************************************************************)
(* The order of the routes: those that are assigned to the task, then the  *)
(* default ones.                                                           *)
(***************************************************************************)
Before(r, s) ==
    \/ r.role = "primary" /\ s.role # "primary"
    \/ /\ r.role = "primary" <=> s.role = "primary"
       /\ \/ r.priority < s.priority
          \/ r.priority = s.priority /\ (r.cost < s.cost \/ (r.cost = s.cost /\ r.id < s.id))
Open == {r \in Routes : r.active /\ r.role \in {"primary", "fallback"}}
Assigned == {r \in Open : r.assigned}
Default == {r \in Open \ Assigned : r.default}
\* A route has its place after those before it.
InOrder(routes) ==
    [k \in 1..Cardinality(routes) |->
        CHOOSE r \in routes : Cardinality({s \in routes : Before(s, r)}) = k - 1]
Ordered == InOrder(Assigned) \o InOrder(Default)

Idle == [step |-> "idle", at |-> 1, read |-> 0]
ProviderOf(w) == Ordered[caller[w].at].provider
At(w, step) == caller[w].step = step
Goto(w, step) == caller' = [caller EXCEPT ![w].step = step]
Done(w) == caller' = [caller EXCEPT ![w] = Idle]
\* The next route, or none: the request fails.
NextRoute(w) ==
    IF caller[w].at < Len(Ordered)
    THEN caller' = [caller EXCEPT ![w].step = "look", ![w].at = @ + 1, ![w].read = 0]
    ELSE Done(w)

CallInit ==
    /\ failures = [p \in Providers |-> Absent]
    /\ opened = [p \in Providers |-> Absent]
    /\ halfOpen = [p \in Providers |-> Absent]
    /\ caller = [w \in Callers |-> Idle]

\* Counts beyond a threshold are not told apart.
Capped(n, max) == IF n > max THEN max ELSE n
Counters == <<failures, opened, halfOpen>>
SetFailures(p, n) == failures' = [failures EXCEPT ![p] = Key(n)]

Ask(w) ==
    /\ At(w, "idle") /\ Len(Ordered) > 0
    /\ Goto(w, "look")
    /\ UNCHANGED Counters

\* is_open, in two reads.
Passes(since) == since # Never /\ since > Recovery
LookFailures(w) ==
    /\ At(w, "look")
    /\ Goto(w, IF failures[ProviderOf(w)].value < Threshold THEN "call" ELSE "lookOpened")
    /\ UNCHANGED Counters
LookOpened(w) ==
    LET key == opened[ProviderOf(w)] IN
    /\ At(w, "lookOpened")
    /\ IF key.left > 0 /\ Passes(key.value) THEN Goto(w, "call") ELSE NextRoute(w)
    /\ UNCHANGED Counters

\* A cached answer, a call that is refused or has no account (which ends the
\* request and is not counted), or one that is answered or fails.
Call(w) ==
    /\ At(w, "call")
    /\ Done(w) \/ Goto(w, "good") \/ Goto(w, "bad")
    /\ UNCHANGED Counters

(***************************************************************************)
(* record_failure                                                          *)
(***************************************************************************)
BadRead(w) ==
    /\ At(w, "bad")
    /\ caller' = [caller EXCEPT ![w].step = "badCount",
                                ![w].read = Capped(failures[ProviderOf(w)].value + 1, Threshold)]
    /\ UNCHANGED Counters
BadCount(w) ==
    /\ At(w, "badCount")
    /\ SetFailures(ProviderOf(w), caller[w].read)
    /\ IF caller[w].read >= Threshold THEN Goto(w, "badOpen") ELSE NextRoute(w)
    /\ UNCHANGED <<opened, halfOpen>>
BadOpen(w) ==
    /\ At(w, "badOpen")
    /\ opened' = [opened EXCEPT ![ProviderOf(w)] = Key(0)]
    /\ Goto(w, "badHalf")
    /\ UNCHANGED <<failures, halfOpen>>
BadHalf(w) ==
    /\ At(w, "badHalf")
    /\ halfOpen' = [halfOpen EXCEPT ![ProviderOf(w)] = Key(0)]
    /\ NextRoute(w)
    /\ UNCHANGED <<failures, opened>>

(***************************************************************************)
(* record_success                                                          *)
(***************************************************************************)
GoodRead(w) ==
    /\ At(w, "good")
    /\ Goto(w, IF failures[ProviderOf(w)].value >= Threshold THEN "goodHalf" ELSE "reset")
    /\ UNCHANGED Counters
Reset(w) ==
    /\ At(w, "reset")
    /\ SetFailures(ProviderOf(w), 0)
    /\ Done(w)
    /\ UNCHANGED <<opened, halfOpen>>
GoodHalf(w) ==
    /\ At(w, "goodHalf")
    /\ caller' = [caller EXCEPT ![w].step = "goodCount",
                                ![w].read = Capped(halfOpen[ProviderOf(w)].value + 1, Successes)]
    /\ UNCHANGED Counters
GoodCount(w) ==
    /\ At(w, "goodCount")
    /\ halfOpen' = [halfOpen EXCEPT ![ProviderOf(w)] = Key(caller[w].read)]
    /\ IF caller[w].read >= Successes THEN Goto(w, "close") ELSE Done(w)
    /\ UNCHANGED <<failures, opened>>
Close(w) ==
    /\ At(w, "close")
    /\ SetFailures(ProviderOf(w), 0)
    /\ Goto(w, "closeOpened")
    /\ UNCHANGED <<opened, halfOpen>>
CloseOpened(w) ==
    /\ At(w, "closeOpened")
    /\ opened' = [opened EXCEPT ![ProviderOf(w)] = Key(Never)]
    /\ Goto(w, "closeHalf")
    /\ UNCHANGED <<failures, halfOpen>>
CloseHalf(w) ==
    /\ At(w, "closeHalf")
    /\ halfOpen' = [halfOpen EXCEPT ![ProviderOf(w)] = Key(0)]
    /\ Done(w)
    /\ UNCHANGED <<failures, opened>>

\* Keys expire, and the time since the circuit was opened grows.
Later(k) == IF k.left <= 1 THEN Absent ELSE [k EXCEPT !.left = @ - 1]
Since(k) == IF Later(k) = Absent \/ k.value = Never THEN Later(k)
            ELSE [Later(k) EXCEPT !.value = Capped(@ + 1, Recovery + 1)]
CallTick ==
    /\ failures' = [p \in Providers |-> Later(failures[p])]
    /\ opened' = [p \in Providers |-> Since(opened[p])]
    /\ halfOpen' = [p \in Providers |-> Later(halfOpen[p])]
    /\ UNCHANGED caller

Serve(w) ==
    \/ LookFailures(w) \/ LookOpened(w) \/ Call(w)
    \/ BadRead(w) \/ BadCount(w) \/ BadOpen(w) \/ BadHalf(w)
    \/ GoodRead(w) \/ Reset(w) \/ GoodHalf(w) \/ GoodCount(w)
    \/ Close(w) \/ CloseOpened(w) \/ CloseHalf(w)
CallNext ==
    \/ \E w \in Callers : Ask(w) \/ Serve(w)
    \/ CallTick

\* A request that has begun goes on (its call has a timeout), and time passes.
CallFairness ==
    /\ WF_callVars(CallTick)
    /\ \A w \in Callers : WF_callVars(Serve(w))

Keys(values) == [value: values, left: 0..KeyLife]
CallTypeOK ==
    /\ failures \in [Providers -> Keys(0..Threshold)]
    /\ opened \in [Providers -> Keys(Never..Recovery + 1)]
    /\ halfOpen \in [Providers -> Keys(0..Successes)]
    /\ caller \in [Callers -> [step: Steps, at: Nat, read: Nat]]

\* No provider stays blocked for ever: however the counters of failures and
\* successes interleave, each is let through again, after the recovery time
\* or when its keys expire.
Blocked(p) ==
    /\ failures[p].value >= Threshold
    /\ ~(opened[p].left > 0 /\ Passes(opened[p].value))
ProvidersTriedAgain == \A p \in Providers : []<>~Blocked(p)

CallSpec == CallInit /\ [][CallNext]_callVars /\ CallFairness
=============================================================================
