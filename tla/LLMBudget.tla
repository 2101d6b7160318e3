------------------------------ MODULE LLMBudget ------------------------------
(***************************************************************************)
(* Paid model calls and the daily budget.  A request of LLMClient goes     *)
(* through the configured routes in turn; every attempt first commits a    *)
(* reservation of the whole reviewed ceiling, then calls the supplier      *)
(* without holding a lock, then settles what the answer reports.  All      *)
(* accounting transactions take one gate row, so each is one action.       *)
(* Workers die, settlements fail, suppliers answer without usage or above  *)
(* the ceiling, midnight comes between reservation and settlement, and an  *)
(* operator reconciles what is left open.                                  *)
(* Tokens are one number for both directions.  The circuit breaker and the *)
(* cache only let a request skip routes or end early.                      *)
(***************************************************************************)
EXTENDS Integers, FiniteSetsExt, Sequences

CONSTANTS
    Workers,      \* processes that make requests
    Configs,      \* llm_config rows, each a route of its own
    Ceilings,     \* token ceilings an administrator may review; 0 is none
    Tokens,       \* tokens a supplier may bill, reviewed ceiling or not
    Price, Unit,  \* a call of n tokens costs Price * n / Unit, rounded up
    Limit,        \* LLM_DAILY_BUDGET_USD; 0 switches the limit off
    OldCosts,     \* possible costs of calls logged before there were reservations
    MaxAttempts,  \* paid attempts of one request (3)
    MaxCalls,     \* bound: reservations
    MaxDays       \* bound: days

ASSUME BudgetConstants ==
    /\ Ceilings \subseteq Nat
    /\ Tokens \subseteq Nat
    /\ Price \in Nat
    /\ Unit \in Nat \ {0}
    /\ Limit \in Nat
    /\ OldCosts \subseteq Nat
    /\ MaxAttempts \in Nat
    /\ MaxCalls \in Nat
    /\ MaxDays \in Nat

VARIABLES
    ceiling,  \* the reviewed ceiling of each route
    rows,     \* llm_reservation, in the order of admission
    legacy,   \* today's calls without a reservation: their cost, one without a price
    day,      \* the UTC day
    bill,     \* what the supplier charges in the end for a reservation's call
    pc,       \* where each worker is in LLMClient._request
    run       \* what it holds there

vars == <<ceiling, rows, legacy, day, bill, pc, run>>

NoPermit == 0
Closed == {"settled", "reconciled"}
States == Closed \cup {"reserved", "unknown", "overrun"}

\* An answer: the tokens it reports (-1: none, or not to be believed), whether
\* it had a usage part at all, and whether it is an error or of no use.
Answers == [tokens: Tokens \cup {-1}, usage: BOOLEAN, error: BOOLEAN]
NoAnswer == [tokens |-> -1, usage |-> FALSE, error |-> TRUE]

Idle == [terms |-> [c \in Configs |-> 0], linked |-> FALSE, tried |-> {},
         spent |-> {}, permit |-> NoPermit, answer |-> NoAnswer]

\* money(price * tokens / 1000) with ROUND_CEILING.
Cost(n) == (Price * n + Unit - 1) \div Unit

RowType == [config: Configs, day: 0 .. MaxDays, limit: Ceilings, held: Nat,
            actual: Nat, observed: Tokens \cup {-1}, state: States]
RunType == [terms: [Configs -> Ceilings \cup {0}], linked: BOOLEAN, tried: SUBSET Configs,
            spent: SUBSET (1 .. MaxCalls), permit: 0 .. MaxCalls, answer: Answers]

TypeOK ==
    /\ ceiling \in [Configs -> Ceilings \cup {0}]
    /\ rows \in Seq(RowType)
    /\ Len(rows) <= MaxCalls
    /\ legacy \in [cost: Nat, unpriced: BOOLEAN]
    /\ day \in 0 .. MaxDays
    /\ bill \in [1 .. MaxCalls -> Nat]
    /\ pc \in [Workers -> {"idle", "choosing", "calling", "settling"}]
    /\ run \in [Workers -> RunType]

Init ==
    /\ ceiling \in [Configs -> Ceilings \cup {0}]
    /\ rows = <<>>
    /\ legacy \in [cost: OldCosts, unpriced: BOOLEAN]
    /\ day = 0
    /\ bill = [i \in 1 .. MaxCalls |-> 0]
    /\ pc = [w \in Workers |-> "idle"]
    /\ run = [w \in Workers |-> Idle]

----------------------------------------------------------------------------
\* What the account says.

\* Mutant of Charge: an unknown cost counts nothing.
ChargeKnown(r) ==
    IF r.state \in Closed THEN r.actual ELSE IF r.state = "unknown" THEN 0 ELSE r.held

\* The actual cost of a closed row, the whole hold of any other.
Charge(r) == IF r.state \in Closed THEN r.actual ELSE r.held

\* Mutant of Counts: midnight releases the holds.
CountsToday(r) == r.day = day

\* A row counts on its own day, and as long as it is open.
Counts(r) == r.day = day \/ r.state \notin Closed

Charges ==
    MapThenSumSet(LAMBDA i : Charge(rows[i]), {i \in DOMAIN rows : Counts(rows[i])})

\* budget.reserve under the gate: no unpriced old call, no open overrun, no
\* overrun of this route beyond the terms now asked for, and room for the hold.
Admits(c, limit) ==
    /\ ~legacy.unpriced
    /\ \A i \in DOMAIN rows : rows[i].state # "overrun"
    /\ \A i \in DOMAIN rows : rows[i].config = c => rows[i].observed <= limit
    /\ Limit = 0 \/ legacy.cost + Charges + Cost(limit) <= Limit

----------------------------------------------------------------------------
\* A request.

GoTo(w, step) == pc' = [pc EXCEPT ![w] = step]
Ends(w) == GoTo(w, "idle") /\ run' = [run EXCEPT ![w] = Idle]

\* The routes and their terms are read once, before the first attempt.  A call
\* for a learning attempt or a company job is linked to it.
Begin(w, linked) ==
    /\ pc[w] = "idle"
    /\ GoTo(w, "choosing")
    /\ run' = [run EXCEPT ![w] = [Idle EXCEPT !.terms = ceiling, !.linked = linked]]
    /\ UNCHANGED <<ceiling, rows, legacy, day, bill>>

\* No route is left, or a cached answer is found.
GiveUp(w) ==
    /\ pc[w] = "choosing"
    /\ Ends(w)
    /\ UNCHANGED <<ceiling, rows, legacy, day, bill>>

\* The permit for the next attempt, committed before the call.  A refusal ends
\* the request: no other route is tried.
Reserve(w, c) ==
    LET limit == run[w].terms[c]
        permit == Len(rows) + 1
    IN /\ pc[w] = "choosing"
       /\ c \notin run[w].tried
       /\ Cardinality(run[w].tried) < MaxAttempts
       /\ \/ /\ limit > 0 /\ Admits(c, limit)
             /\ Len(rows) < MaxCalls
             /\ rows' = Append(rows, [config |-> c, day |-> day, limit |-> limit,
                             held |-> Cost(limit), actual |-> 0, observed |-> -1,
                             state |-> "reserved"])
             /\ run' = [run EXCEPT ![w] = [@ EXCEPT !.tried = run[w].tried \cup {c},
                                                    !.permit = permit]]
             /\ GoTo(w, "calling")
          \/ /\ ~(limit > 0 /\ Admits(c, limit))
             /\ Ends(w)
             /\ UNCHANGED rows
       /\ UNCHANGED <<ceiling, legacy, day, bill>>

\* The supplier bills n tokens, and answers: with the usage, with usage that is
\* missing or malformed, or not at all.
Call(w, n) ==
    /\ pc[w] = "calling"
    /\ bill' = [bill EXCEPT ![run[w].permit] = Cost(n)]
    /\ \E error \in BOOLEAN : \E usage \in {TRUE, ~error} :
          \E tokens \in IF usage THEN {n, -1} ELSE {-1} :
             run' = [run EXCEPT ![w].answer =
                        [tokens |-> tokens, usage |-> usage, error |-> error]]
    /\ GoTo(w, "settling")
    /\ UNCHANGED <<ceiling, rows, legacy, day>>

\* Mutant of Settled: the numbers are taken as they come.
SettledBlindly(r, tokens) ==
    [r EXCEPT !.actual = Cost(tokens),
              !.state = IF tokens > r.limit THEN "overrun" ELSE "settled",
              !.observed = IF tokens > r.limit THEN tokens ELSE -1]

\* The row after budget.settle.
Settled(r, tokens) ==
    IF tokens = -1 THEN [r EXCEPT !.state = "unknown"]
    ELSE [r EXCEPT !.actual = Cost(tokens),
                   !.state = IF tokens > r.limit THEN "overrun" ELSE "settled",
                   !.observed = IF tokens > r.limit THEN tokens ELSE -1]

\* Mutant of Pending: a row is settled whatever became of it.
PendingAlways(i) == TRUE

Pending(i) == rows[i].state = "reserved"

\* Mutant of Aborts: a failed settlement goes on to the next route.
AbortsNever(w, known) == ~run[w].answer.error

\* _call_llm after the settlement: a result or an accounting failure ends the
\* request; a failed answer goes on, one without any usage too unless the call
\* belongs to a job.
Aborts(w, known) ==
    \/ ~run[w].answer.error
    \/ ~known /\ (run[w].answer.usage \/ run[w].linked)

\* budget.settle and what the client makes of it.  An operator may have decided
\* on the row before; the commit's confirmation may be lost.
Settle(w) ==
    LET i == run[w].permit
        known == Settled(rows[i], run[w].answer.tokens).state = "settled"
    IN /\ pc[w] = "settling"
       /\ \/ /\ Pending(i)
             /\ rows' = [rows EXCEPT ![i] = Settled(@, run[w].answer.tokens)]
             /\ \/ Ends(w)
                \/ /\ ~Aborts(w, known)
                   /\ GoTo(w, "choosing")
                   /\ run' = [run EXCEPT ![w] = [@ EXCEPT !.spent = run[w].spent \cup {i},
                                       !.permit = NoPermit, !.answer = NoAnswer]]
          \/ /\ ~Pending(i)
             /\ Ends(w)
             /\ UNCHANGED rows
       /\ UNCHANGED <<ceiling, legacy, day, bill>>

\* A killed worker, or a database that is away: the hold stays.
Crash(w) ==
    /\ pc[w] # "idle"
    /\ Ends(w)
    /\ UNCHANGED <<ceiling, rows, legacy, day, bill>>

----------------------------------------------------------------------------
\* Operators, and time.

\* budget.reconcile, on the row the operator saw, with the final bill.  That the
\* call is over is the operator's word; a worker may still be about to settle.
Reconcile(i) ==
    /\ rows[i].state \notin Closed
    /\ \A w \in Workers : ~(pc[w] = "calling" /\ run[w].permit = i)
    /\ rows' = [rows EXCEPT ![i] = [@ EXCEPT !.actual = bill[i], !.state = "reconciled"]]
    /\ UNCHANGED <<ceiling, legacy, day, bill, pc, run>>

Review(c, limit) ==
    /\ ceiling[c] # limit
    /\ ceiling' = [ceiling EXCEPT ![c] = limit]
    /\ UNCHANGED <<rows, legacy, day, bill, pc, run>>

\* Midnight, UTC.  Old calls count on the day they were made.
NextDay ==
    /\ day < MaxDays
    /\ day' = day + 1
    /\ legacy' = [cost |-> 0, unpriced |-> FALSE]
    /\ UNCHANGED <<ceiling, rows, bill, pc, run>>

Next ==
    \/ \E w \in Workers :
          \/ \E linked \in BOOLEAN : Begin(w, linked)
          \/ GiveUp(w)
          \/ \E c \in Configs : Reserve(w, c)
          \/ \E n \in Tokens : Call(w, n)
          \/ Settle(w)
          \/ Crash(w)
    \/ \E i \in DOMAIN rows : Reconcile(i)
    \/ \E c \in Configs, limit \in Ceilings \cup {0} : Review(c, limit)
    \/ NextDay

Spec == Init /\ [][Next]_vars

----------------------------------------------------------------------------
\* What the reservations are for.

\* The supplier kept to the reviewed terms for the permits in S.
KeptTerms(S) == \A i \in S : bill[i] <= rows[i].held

\* Whatever is billed in the end for the calls admitted on one day stays within
\* the day's limit, known or not, settled or not, if the supplier keeps to the
\* terms of these calls.
BilledWithinLimit ==
    \A d \in 0 .. day :
        LET S == {i \in DOMAIN rows : rows[i].day = d} IN
        Limit # 0 /\ KeptTerms(S) => MapThenSumSet(LAMBDA i : bill[i], S) <= Limit

\* "reserved/unknown keep the whole reservation across days": today's costs and
\* everything that may still be billed, of whatever day, are within the limit.
Open == {i \in DOMAIN rows : rows[i].state \notin Closed}
Today == {i \in DOMAIN rows : rows[i].day = day}
OpenHoldsCovered ==
    Limit # 0 /\ KeptTerms(DOMAIN rows) =>
        MapThenSumSet(LAMBDA i : rows[i].held, Open)
            + MapThenSumSet(LAMBDA i : rows[i].actual, Today \ Open) <= Limit

\* The final word: a settled or reconciled row is not changed again, neither by
\* a worker that comes back after the operator nor by a second operator.
KeepsDecided ==
    \A i \in DOMAIN rows : rows[i].state \in Closed => rows'[i] = rows[i]
DecidedForGood == [][KeepsDecided]_vars

\* The inductive invariant behind the next property and the last one (proved in
\* LLMBudgetProofs).  A worker has a permit from the reservation to the
\* settlement; only usage makes tokens.
PermitsAreRows ==
    \A w \in Workers :
        /\ pc[w] \in {"calling", "settling"} => run[w].permit \in DOMAIN rows
        /\ run[w].spent \subseteq DOMAIN rows
        /\ run[w].answer.tokens # -1 => run[w].answer.usage

\* "Failed settlement retains the committed permit and must never cause another
\* billable call": a request that goes on has no earlier permit pending, and none
\* whose call was answered with usage that could not be settled.
SettledBeforeNext ==
    \A w \in Workers : \A i \in run[w].spent :
        /\ rows[i].state \notin {"reserved", "overrun"}
        /\ rows[i].state = "unknown" => ~run[w].linked

IInv == TypeOK /\ PermitsAreRows /\ SettledBeforeNext
=============================================================================
