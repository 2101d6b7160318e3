------------------------------ MODULE Learning ------------------------------
(***************************************************************************)
(* Learning sessions: a model proposes recipes for a source, in at most    *)
(* three rounds, paid from a budget.  An administrator starts a session on *)
(* a capture and may cancel it or retry it; messages that carry a delivery *)
(* key bring it to a worker; the worker claims a round, pays for model     *)
(* calls, tries the recipe and ends the round.  Messages are lost or come  *)
(* again, commits succeed without the worker hearing of it, workers die,   *)
(* and the session's deadline passes at any step.                          *)
(* All of learning.py's transactions take the budget gate, so each is one  *)
(* action.  Sums of money are in LLMBudget; here an admission may fail.    *)
(***************************************************************************)
EXTENDS Integers

CONSTANTS
    Sources,
    Captures,   \* a session is known by its capture, which is unique
    Workers,
    Routes,     \* models assigned to crawl_schema
    None,
    MaxRounds,  \* rounds of a session (3)
    TimeLimit,  \* from the start of a session to its deadline
    Spacing,    \* between two deliveries of the same round
    Cooldown    \* of a source after a session that was stopped

ASSUME LearningConstants ==
    /\ None \notin Sources \cup Captures \cup Routes
    /\ MaxRounds \in Nat
    /\ TimeLimit \in Nat
    /\ Spacing \in Nat
    /\ Cooldown \in Nat

VARIABLES
    session,  \* crawl_repair_session of each capture
    attempt,  \* the state of each crawl_repair_attempt: <<capture, number>>
    call,     \* the state of each llm_reservation: <<capture, number, route>>
    queue,    \* messages of the crawl_learn queue
    pc,       \* where each worker is in learn()
    run       \* what it holds there

vars == <<session, attempt, call, queue, pc, run>>

Active == {"queued", "running"}
Stopped == {"blocked", "exhausted", "cancelled"}
SessionStates == Active \cup Stopped \cup {"none", "awaiting_validation"}

\* Fenced is "blocked" or "discarded", which only tell the reason.
AttemptStates == {"none", "calling", "candidate", "rejected", "fenced"}

\* Both unknown and overrun are "unknown" here: open, and not to be settled.
Open == {"reserved", "unknown"}
CallStates == Open \cup {"none", "settled", "reconciled"}
Steps == {"idle", "claiming", "proposing", "calling", "parsing", "finishing", "blocking"}

Attempts == Captures \X (1 .. MaxRounds)
Calls == Captures \X (1 .. MaxRounds) \X Routes

\* _learning_delivery.key: the round and the retry that are to come.
Keys == [round: Nat, retry: Nat]
Messages == [capture: Captures, key: Keys]

Sessions == [source: Sources \cup {None}, state: SessionStates, rounds: 0 .. MaxRounds,
             retries: Nat, retried: SUBSET Nat,
             due: 0 .. Spacing, left: 0 .. TimeLimit, cooldown: 0 .. Cooldown]
Runs == [capture: Captures \cup {None}, key: Keys, number: 0 .. MaxRounds,
         route: Routes \cup {None}]

NoSession == [source |-> None, state |-> "none", rounds |-> 0, retries |-> 0, retried |-> {},
              due |-> 0, left |-> 0, cooldown |-> 0]
NoRun == [capture |-> None, key |-> [round |-> 0, retry |-> 0], number |-> 0, route |-> None]

TypeOK ==
    /\ session \in [Captures -> Sessions]
    /\ attempt \in [Attempts -> AttemptStates]
    /\ call \in [Calls -> CallStates]
    /\ queue \subseteq Messages
    /\ pc \in [Workers -> Steps]
    /\ run \in [Workers -> Runs]

Init ==
    /\ session = [c \in Captures |-> NoSession]
    /\ attempt = [a \in Attempts |-> "none"]
    /\ call = [k \in Calls |-> "none"]
    /\ queue = {}
    /\ pc = [w \in Workers |-> "idle"]
    /\ run = [w \in Workers |-> NoRun]

Key(c) == [round |-> session[c].rounds, retry |-> session[c].retries]

\* The attempt a worker may go on with.
Current(c, n) ==
    /\ session[c].state = "running"
    /\ n = session[c].rounds
    /\ attempt[<<c, n>>] = "calling"

OpenCalls == {k \in Calls : call[k] \in Open}
Paid(c) == \E k \in Calls : k[1] = c /\ call[k] # "none"

\* Mutant of Fence: the calling attempt is left as it is.
FenceNothing(c) == UNCHANGED attempt

\* stop() on the attempts: what is calling is over.
Fence(c) ==
    attempt' = [a \in Attempts |->
                   IF a[1] = c /\ attempt[a] = "calling" THEN "fenced" ELSE attempt[a]]

\* Mutant of End: the cooldown is added to what is left of an older one.
EndAddsUp(c, state) ==
    session' = [session EXCEPT ![c] = [@ EXCEPT !.state = state,
                                                !.cooldown = session[c].cooldown + Cooldown]]

\* stop() on the session.  An older cooldown ends before the new one.
End(c, state) ==
    session' = [session EXCEPT ![c] = [@ EXCEPT !.state = state, !.cooldown = Cooldown]]

Stop(c, state) == End(c, state) /\ Fence(c)

----------------------------------------------------------------------------
\* The administrator.

\* Mutant of MayStart: whatever the source is doing.
MayStartAlways(s) == TRUE

MayStart(s) ==
    \A d \in Captures : session[d].source = s =>
        session[d].state \notin Active /\ session[d].cooldown = 0

\* start: on a capture that has a session already it is only a delivery.
Start(c, s) ==
    /\ session[c].state = "none"
    /\ MayStart(s)
    /\ session' = [session EXCEPT ![c] = [NoSession EXCEPT !.source = s, !.state = "queued",
                                                           !.left = TimeLimit]]
    /\ UNCHANGED <<attempt, call, queue, pc, run>>

Cancel(c) ==
    /\ session[c].state \in Active
    /\ Stop(c, "cancelled")
    /\ UNCHANGED <<call, queue, pc, run>>

\* Mutant of MayRetry: a round is retried as often as one likes.
MayRetryAgain(c) == ~Paid(c)

\* Mutant of MayRetry: whether or not a call was admitted.
MayRetryPaid(c) == session[c].rounds \notin session[c].retried

\* retry_reason and retry: only before any money was reserved, once per round.
MayRetry(c) ==
    /\ ~Paid(c)
    /\ session[c].rounds \notin session[c].retried

\* retry: the same rounds, deadline and cooldown, with another key.
Retry(c) ==
    /\ session[c].state = "blocked"
    /\ session[c].left > 0
    /\ session[c].rounds < MaxRounds
    /\ MayRetry(c)
    /\ \A d \in Captures \ {c} : session[d].source = session[c].source =>
           session[d].state \notin Active
    /\ session' = [session EXCEPT ![c] = [@ EXCEPT !.state = "queued", !.due = 0,
                      !.retries = session[c].retries + 1,
                      !.retried = session[c].retried \cup {session[c].rounds}]]
    /\ UNCHANGED <<attempt, call, queue, pc, run>>

\* The operator decides about an open reservation (LLMBudget).
Reconcile(k) ==
    /\ call[k] \in Open
    /\ call' = [call EXCEPT ![k] = "reconciled"]
    /\ UNCHANGED <<session, attempt, queue, pc, run>>

----------------------------------------------------------------------------
\* Delivery.

\* publish, after start and retry and from recover(): the slot is taken before
\* the message is sent, and the sending may fail.
Publish(c) ==
    /\ session[c].state = "queued"
    /\ \/ /\ session[c].left = 0
          /\ Stop(c, "blocked")
          /\ UNCHANGED queue
       \/ /\ session[c].left > 0 /\ session[c].due = 0
          /\ session' = [session EXCEPT ![c].due = Spacing]
          /\ queue' \in {queue, queue \cup {[capture |-> c, key |-> Key(c)]}}
          /\ UNCHANGED attempt
    /\ UNCHANGED <<call, pc, run>>

\* Mutant of Overdue: recovery looks at queued sessions only.
OverdueQueued(c) == session[c].state = "queued" /\ session[c].left = 0

Overdue(c) == session[c].state \in Active /\ session[c].left = 0

\* recover() on a session past its deadline.
Recover(c) ==
    /\ Overdue(c)
    /\ Stop(c, "blocked")
    /\ UNCHANGED <<call, queue, pc, run>>

LoseMessage(m) ==
    /\ m \in queue
    /\ queue' = queue \ {m}
    /\ UNCHANGED <<session, attempt, call, pc, run>>

----------------------------------------------------------------------------
\* A worker's way through learn().

GoTo(w, step) == pc' = [pc EXCEPT ![w] = step]
Leave(w) == GoTo(w, "idle") /\ run' = [run EXCEPT ![w] = NoRun]

\* The message is acknowledged late: until LoseMessage it may come again.
Receive(w, m) ==
    /\ pc[w] = "idle"
    /\ m \in queue
    /\ GoTo(w, "claiming")
    /\ run' = [run EXCEPT ![w] = [NoRun EXCEPT !.capture = m.capture, !.key = m.key]]
    /\ UNCHANGED <<session, attempt, call, queue>>

\* No session runs and no learning call is unaccounted for, on any source.
Free ==
    /\ \A d \in Captures : session[d].state # "running"
    /\ OpenCalls = {}

Expected(w) ==
    LET c == run[w].capture IN session[c].state = "queued" /\ run[w].key = Key(c)

\* claim returns nothing: an old message, or not now.
ClaimRefused(w) ==
    /\ pc[w] = "claiming"
    /\ Expected(w) => session[run[w].capture].left > 0 /\ ~Free
    /\ Leave(w)
    /\ UNCHANGED <<session, attempt, call, queue>>

\* claim ends the session: damaged history (whatever the key), the deadline, or
\* no model whose ceiling holds the prompt.
ClaimStops(w) ==
    LET c == run[w].capture IN
    /\ pc[w] = "claiming"
    /\ session[c].state = "queued"
    /\ Stop(c, "blocked")
    /\ Leave(w)
    /\ UNCHANGED <<call, queue>>

\* claim opens a round, after which the key is of no more use.  If only the commit's
\* answer is lost the worker knows the attempt, but takes it for failed.
ClaimWins(w) ==
    LET c == run[w].capture
        n == session[c].rounds + 1
    IN /\ pc[w] = "claiming"
       /\ Expected(w)
       /\ session[c].left > 0
       /\ session[c].rounds < MaxRounds
       /\ Free
       /\ session' = [session EXCEPT ![c] = [@ EXCEPT !.rounds = n, !.state = "running"]]
       /\ attempt' = [attempt EXCEPT ![<<c, n>>] = "calling"]
       /\ run' = [run EXCEPT ![w] = [NoRun EXCEPT !.capture = c, !.number = n]]
       /\ GoTo(w, "proposing") \/ GoTo(w, "blocking")
       /\ UNCHANGED <<call, queue>>

\* Mutant of Admitted: the attempt is not looked at again.
AdmittedAlways(c, n) == TRUE

\* learning.admit, within the reservation's transaction.
Admitted(c, n) == Current(c, n) /\ session[c].left > 0

\* The reservation for the next route; its commit's answer may be lost.
Reserve(w, r) ==
    LET c == run[w].capture
        n == run[w].number
    IN /\ pc[w] = "proposing"
       /\ Admitted(c, n)
       /\ call[<<c, n, r>>] = "none"
       /\ call' = [call EXCEPT ![<<c, n, r>>] = "reserved"]
       /\ \/ GoTo(w, "calling") /\ run' = [run EXCEPT ![w].route = r]
          \/ GoTo(w, "blocking") /\ UNCHANGED run
       /\ UNCHANGED <<session, attempt, queue>>

\* Mutant of AfterUnknown: an answer without usage is used all the same.
AfterUnknownUsed == "parsing"

\* A learning call whose accounting fails ends the attempt.
AfterUnknown == "blocking"

\* The call and budget.settle: an answer of use, an accounted answer of no use
\* (the next route), or one that cannot be accounted for.  A settlement whose
\* commit's answer is lost fails.
Settle(w) ==
    LET k == <<run[w].capture, run[w].number, run[w].route>> IN
    /\ pc[w] = "calling"
    /\ call[k] = "reserved"
    /\ \/ /\ call' = [call EXCEPT ![k] = "settled"]
          /\ \E step \in {"parsing", "proposing", "blocking"} : GoTo(w, step)
       \/ /\ call' = [call EXCEPT ![k] = "unknown"]
          /\ GoTo(w, AfterUnknown)
    /\ run' = [run EXCEPT ![w].route = None]
    /\ UNCHANGED <<session, attempt, queue>>

\* parse_window, then the recipe is tried on the captured pages.
Parse(w) ==
    LET c == run[w].capture
        n == run[w].number
    IN /\ pc[w] = "parsing"
       /\ \/ /\ ~Current(c, n)
             /\ Leave(w)
             /\ UNCHANGED <<session, attempt>>
          \/ /\ Current(c, n) /\ session[c].left = 0
             /\ Stop(c, "blocked")
             /\ Leave(w)
          \/ /\ Current(c, n) /\ session[c].left > 0
             /\ GoTo(w, "finishing")
             /\ UNCHANGED <<session, attempt, run>>
       /\ UNCHANGED <<call, queue>>

\* finish, too late: cancelled, stopped, or past the deadline.  The line that
\* discards an attempt still calling in a session that is not running has nothing
\* to do (FencedAttempts).
FinishLate(w) ==
    LET c == run[w].capture
        n == run[w].number
    IN /\ pc[w] = "finishing"
       /\ \/ /\ session[c].state # "running" \/ attempt[<<c, n>>] # "calling"
             /\ UNCHANGED <<session, attempt>>
          \/ /\ session[c].state = "running" /\ attempt[<<c, n>>] = "calling"
             /\ session[c].left = 0
             /\ Stop(c, "blocked")
       /\ Leave(w)
       /\ UNCHANGED <<call, queue>>

Finishing(w) ==
    LET c == run[w].capture IN
    /\ pc[w] = "finishing"
    /\ session[c].state = "running"
    /\ attempt[<<c, run[w].number>>] = "calling"
    /\ session[c].left > 0

\* finish: the recipe works, and is frozen as a candidate.
FinishReady(w) ==
    LET c == run[w].capture IN
    /\ Finishing(w)
    /\ session' = [session EXCEPT ![c].state = "awaiting_validation"]
    /\ attempt' = [attempt EXCEPT ![<<c, run[w].number>>] = "candidate"]
    /\ Leave(w)
    /\ UNCHANGED <<call, queue>>

\* finish: the last round, or a recipe that was proposed before.
FinishExhausted(w) ==
    LET c == run[w].capture IN
    /\ Finishing(w)
    /\ session[c].rounds = MaxRounds \/ run[w].number > 1
    /\ End(c, "exhausted")
    /\ attempt' = [attempt EXCEPT ![<<c, run[w].number>>] = "rejected"]
    /\ Leave(w)
    /\ UNCHANGED <<call, queue>>

\* finish: another round, which the worker goes on to claim if it hears of it.
FinishRejected(w) ==
    LET c == run[w].capture IN
    /\ Finishing(w)
    /\ session[c].rounds < MaxRounds
    /\ session' = [session EXCEPT ![c] = [@ EXCEPT !.state = "queued", !.due = 0]]
    /\ attempt' = [attempt EXCEPT ![<<c, run[w].number>>] = "rejected"]
    /\ \/ /\ GoTo(w, "claiming")
          /\ run' = [run EXCEPT ![w] = [NoRun EXCEPT !.capture = c, !.key = Key(c)]]
       \/ /\ GoTo(w, "blocking")
          /\ UNCHANGED run
    /\ UNCHANGED <<call, queue>>

\* Any exception: refused admission, inputs that changed, no route left, an
\* invalid recipe, a reservation that was reconciled meanwhile.
Fails(w) ==
    /\ pc[w] \in Steps \ {"idle", "blocking"}
    /\ GoTo(w, "blocking")
    /\ run' = [run EXCEPT ![w].route = None]
    /\ UNCHANGED <<session, attempt, call, queue>>

\* What the failed worker still may end: the round it claimed, or before it has
\* claimed one, the round its message was for.
Blockable(w) ==
    LET c == run[w].capture
        n == run[w].number
    IN IF n = 0 THEN Expected(w) ELSE attempt[<<c, n>>] = "calling" /\ n = session[c].rounds

\* learning.block; it is given up if it fails too.
Block(w) ==
    /\ pc[w] = "blocking"
    /\ \/ Blockable(w) /\ Stop(run[w].capture, "blocked")
       \/ UNCHANGED <<session, attempt>>
    /\ Leave(w)
    /\ UNCHANGED <<call, queue>>

\* A killed process, the task's time limit.
Crash(w) ==
    /\ pc[w] # "idle"
    /\ Leave(w)
    /\ UNCHANGED <<session, attempt, call, queue>>

----------------------------------------------------------------------------
Less(n) == IF n = 0 THEN 0 ELSE n - 1

Tick ==
    /\ session' = [c \in Captures |->
                      [session[c] EXCEPT !.due = Less(@), !.left = Less(@), !.cooldown = Less(@)]]
    /\ UNCHANGED <<attempt, call, queue, pc, run>>

Learn(w) ==
    \/ \E m \in queue : Receive(w, m)
    \/ ClaimRefused(w) \/ ClaimStops(w) \/ ClaimWins(w)
    \/ \E r \in Routes : Reserve(w, r)
    \/ Settle(w) \/ Parse(w)
    \/ FinishLate(w) \/ FinishReady(w) \/ FinishExhausted(w) \/ FinishRejected(w)
    \/ Fails(w) \/ Block(w) \/ Crash(w)

Admin(c) ==
    \/ \E s \in Sources : Start(c, s)
    \/ Cancel(c) \/ Retry(c)

Next ==
    \/ \E c \in Captures : Admin(c) \/ Publish(c) \/ Recover(c)
    \/ \E k \in Calls : Reconcile(k)
    \/ \E m \in queue : LoseMessage(m)
    \/ \E w \in Workers : Learn(w)
    \/ Tick

Spec == Init /\ [][Next]_vars

\* Time passes and beat runs recover(); no worker needs to be alive.
FairSpec ==
    /\ Spec
    /\ WF_vars(Tick)
    /\ \A c \in Captures : WF_vars(Recover(c))

----------------------------------------------------------------------------
\* An attempt is calling exactly while it is the newest of a running session:
\* whoever ends a session, for whatever reason, takes the attempt's rights with it.
FencedAttempts ==
    \A a \in Attempts :
        attempt[a] = "calling" <=>
            session[a[1]].state = "running" /\ a[2] = session[a[1]].rounds

\* A source has one session at work, counting those that a retry brings back.
OneActivePerSource ==
    \A c, d \in Captures :
        session[c].state \in Active /\ session[d].state \in Active
            /\ session[c].source = session[d].source => c = d

\* One session runs at a time, on whatever source.
OneRunning ==
    \A c, d \in Captures :
        session[c].state = "running" /\ session[d].state = "running" => c = d

\* At most one learning call is unaccounted for (claim looks at "unresolved" calls of
\* all sources), though workers die with their calls open, sessions are cancelled
\* under them, and others wait to begin.
OneOpenCall == \A k, l \in OpenCalls : k = l

\* A source has one session at work, and all of them one call in flight.
OneByOne == OneActivePerSource /\ OneOpenCall

\* A candidate comes from the last round, and from a call whose account is settled.
CandidateIsAccounted ==
    \A c \in Captures, n \in 1 .. MaxRounds :
        attempt[<<c, n>>] = "candidate" =>
            /\ session[c].state = "awaiting_validation" /\ session[c].rounds = n
            /\ \E r \in Routes : call[<<c, n, r>>] = "settled"

\* The inductive invariant behind these (proved in LearningProofs).
NothingBeforeStart ==
    \A c \in Captures : session[c].state = "none" => session[c].rounds = 0

NotPaidBeforeStart == \A c \in Captures : Paid(c) => session[c].state # "none"

\* A worker that acts has a route exactly while it calls, and tries no recipe that
\* is not paid for.
Acting == {"proposing", "calling", "parsing", "finishing"}

WorkersKnow ==
    \A w \in Workers :
        /\ pc[w] # "idle" => run[w].capture \in Captures
        /\ pc[w] \in Acting => /\ run[w].number \in 1 .. MaxRounds
                               /\ run[w].number <= session[run[w].capture].rounds
        /\ pc[w] \in Acting => (pc[w] = "calling" <=> run[w].route # None)
        /\ pc[w] \in {"parsing", "finishing"} =>
              \E r \in Routes : call[<<run[w].capture, run[w].number, r>>] = "settled"

OneWorkerPerAttempt ==
    \A v, w \in Workers :
        pc[v] \in Acting /\ pc[w] \in Acting /\ run[v].capture = run[w].capture
            /\ run[v].number = run[w].number => v = w

\* While the running attempt's worker is there, nobody else's call is open.
OpenCallIsMine ==
    \A w \in Workers :
        pc[w] \in Acting /\ Current(run[w].capture, run[w].number) =>
            OpenCalls \subseteq {<<run[w].capture, run[w].number, run[w].route>>}

IInv ==
    /\ TypeOK
    /\ FencedAttempts
    /\ OneActivePerSource
    /\ OneRunning
    /\ OneOpenCall
    /\ CandidateIsAccounted
    /\ NothingBeforeStart
    /\ NotPaidBeforeStart
    /\ WorkersKnow
    /\ OneWorkerPerAttempt
    /\ OpenCallIsMine

AdmitsNothing ==
    \A k \in Calls : session[k[1]].state \notin Active /\ call[k] = "none" => call'[k] = "none"

\* Once a session has ended nothing more is admitted for it, although the worker
\* that was at it goes on until its next checkpoint (admit).
EndedAdmitsNothing == [][AdmitsNothing]_vars

KeepsPaid ==
    \A c \in Captures :
        session[c].state \notin Active /\ Paid(c) => session'[c].state = session[c].state

\* A session that ended after a reservation stays as it ended, also when the
\* reservation was reconciled: "no retry, even after reconciliation" (retry_reason).
PaidStaysEnded == [][KeepsPaid]_vars

\* Every session comes to an end that lasts, though messages are lost and workers
\* die: the deadline is never moved.
IsActive(c) == session[c].state \in Active
SessionsEnd == \A c \in Captures : IsActive(c) ~> []~IsActive(c)
=============================================================================
