------------------------------ MODULE Fetching ------------------------------
(***************************************************************************)
(* The pages that one run asks for (fetcher.py): a supervisor that lives   *)
(* as long as the run, and its helper process (_fetch_worker.py), which    *)
(* asks the robots rules of an origin first, follows redirects, keeps its  *)
(* pace and its budgets, and is killed at the deadline.  What servers      *)
(* answer is arbitrary.  Seconds are counted up to a cap or down to zero;  *)
(* sizes are in units, headers and bodies and their encodings taken        *)
(* together.                                                               *)
(***************************************************************************)
EXTENDS Integers, FiniteSets, FiniteSetsExt, Sequences

CONSTANTS
    Origins,       \* records of the host and whether it is https
    Delays,        \* Crawl-delay lines of robots rules
    Hints,         \* Retry-After headers, 0 for none
    MaxSeconds, MaxRequests, MaxRedirects, MaxBytes, MinInterval  \* FetchPolicy

ASSUME FetchConstants ==
    /\ Delays \subseteq Nat /\ IsFiniteSet(Delays) /\ 0 \in Delays /\ Hints \subseteq Nat
    /\ {MaxSeconds, MaxRequests, MaxBytes} \subseteq Nat \ {0}
    /\ {MaxRedirects, MinInterval} \subseteq Nat
    /\ \A o \in Origins : o.secure \in BOOLEAN

VARIABLES
    fetcher,   \* the supervisor: its time, whether it is closed, its helper
    spent,     \* what the helper counts over the run
    pace,      \* per host: since the last request, cooldown, robots delay
    robots,    \* the rules of each origin, once read
    walk,      \* what is being followed: a page, above it its robots.txt
    sent       \* requests that left the machine (history)

fetchVars == <<fetcher, spent, pace, robots, walk, sent>>

Hosts == {o.host : o \in Origins}
\* Rules allow all of an origin or nothing; its two paths redirect to each other.
Paths == {"page", "robots"}
Addresses == [origin: Origins, path: Paths]
Unread == [read |-> FALSE, denies |-> FALSE, delay |-> 0]
Unbounded == [read |-> TRUE, denies |-> FALSE, delay |-> 0]
Rules == [read: {TRUE}, denies: BOOLEAN, delay: Delays]
LongAgo == Max(Delays \cup {MinInterval})

FetchInit ==
    /\ fetcher = [left |-> MaxSeconds, closed |-> FALSE, helper |-> FALSE]
    /\ spent = [requests |-> 0, bytes |-> 0]
    /\ pace = [h \in Hosts |-> [since |-> LongAgo, cool |-> 0, delay |-> 0]]
    /\ robots = [o \in Origins |-> Unread]
    /\ walk = <<>>
    /\ sent = 0

Following == walk # <<>>
Here == walk[Len(walk)]
Asked == Here.address
HostHere == Asked.origin.host
ForRobots == Len(walk) = 2
Frame(a) == [address |-> a, seen |-> {a}, waits |-> FALSE]

\* The fetch ends with an error; the helper, its budgets and rules stay.
Rejected == walk' = <<>>

\* A fetcher that was closed or is out of time does not come back.
FetchPage(o) ==
    /\ ~Following /\ ~fetcher.closed
    /\ IF fetcher.left = 0
       THEN fetcher' = [fetcher EXCEPT !.closed = TRUE, !.helper = FALSE] /\ UNCHANGED walk
       ELSE /\ fetcher' = [fetcher EXCEPT !.helper = TRUE]
            /\ walk' = <<Frame([origin |-> o, path |-> "page"])>>
    /\ UNCHANGED <<spent, pace, robots, sent>>

\* The rules of an origin that was not met before are asked for first, in
\* the same way, but without rules.
AskRobots ==
    /\ Following /\ ~Here.waits /\ ~ForRobots
    /\ ~robots[Asked.origin].read
    /\ walk' = Append(walk, Frame([origin |-> Asked.origin, path |-> "robots"]))
    /\ UNCHANGED <<fetcher, spent, pace, robots, sent>>

MaySend == ForRobots \/ (robots[Asked.origin].read /\ ~robots[Asked.origin].denies)
Denied ==
    /\ Following /\ ~Here.waits /\ ~ForRobots
    /\ robots[Asked.origin].read /\ robots[Asked.origin].denies
    /\ Rejected
    /\ UNCHANGED <<fetcher, spent, pace, robots, sent>>

\* The mutant allows one request more.
BudgetReached == spent.requests <= MaxRequests /\ spent.bytes < MaxBytes
BudgetLeft == spent.requests < MaxRequests /\ spent.bytes < MaxBytes
Bigger(a, b) == IF a > b THEN a ELSE b
Interval(h) == Bigger(MinInterval, pace[h].delay)

\* A host that asked for a rest is left alone, and there is an end to it.
Refused ==
    /\ Following /\ ~Here.waits /\ MaySend
    /\ pace[HostHere].cool > 0 \/ ~BudgetLeft
    /\ Rejected
    /\ UNCHANGED <<fetcher, spent, pace, robots, sent>>

\* After the pause that is due; the name may not resolve to a public address.
SendRequest ==
    /\ Following /\ ~Here.waits /\ MaySend
    /\ pace[HostHere].cool = 0 /\ BudgetLeft
    /\ pace[HostHere].since >= Interval(HostHere)
    /\ fetcher.left > 0
    /\ spent' = [spent EXCEPT !.requests = @ + 1]
    /\ pace' = [pace EXCEPT ![HostHere].since = 0]
    /\ sent' = sent + 1
    /\ walk' = [walk EXCEPT ![Len(walk)].waits = TRUE]
    /\ UNCHANGED <<fetcher, robots>>

(***************************************************************************)
(* What comes back.                                                        *)
(***************************************************************************)
Answered == Following /\ Here.waits
Rested == [pace EXCEPT ![HostHere].since = 0]

\* To another address of the allowed hosts, of any origin but never from
\* https to http, not one seen before and not too far.  Its headers count, too.
Redirected ==
    /\ Answered
    /\ pace' = Rested
    /\ \E a \in Addresses :
           walk' = IF (Asked.origin.secure /\ ~a.origin.secure)
                      \/ a \in Here.seen \/ Cardinality(Here.seen) > MaxRedirects
                   THEN <<>>
                   ELSE [walk EXCEPT ![Len(walk)] =
                             [address |-> a, seen |-> Here.seen \cup {a}, waits |-> FALSE]]
    /\ \E n \in spent.bytes..MaxBytes : spent' = [spent EXCEPT !.bytes = n]
    /\ UNCHANGED <<fetcher, robots, sent>>

\* A refusal, a server that fails or asks to come later, a broken
\* connection, a type or a size that is not accepted.
Fails ==
    /\ Answered
    /\ \/ pace' = Rested
       \/ UNCHANGED pace
       \/ \E hint \in Hints : pace' = [Rested EXCEPT ![HostHere].cool = hint]
    /\ \E n \in spent.bytes..MaxBytes : spent' = [spent EXCEPT !.bytes = n]
    /\ Rejected
    /\ UNCHANGED <<fetcher, robots, sent>>

\* A page is given back.
PageComes ==
    /\ Answered /\ Len(walk) = 1
    /\ pace' = Rested
    /\ \E n \in spent.bytes..MaxBytes : spent' = [spent EXCEPT !.bytes = n]
    /\ walk' = <<>>
    /\ UNCHANGED <<fetcher, robots, sent>>

\* The mutant takes the delay of the origin that was asked last.
LearnLast(o, rules) ==
    /\ robots' = [robots EXCEPT ![o] = rules]
    /\ pace' = [Rested EXCEPT ![o.host].delay = rules.delay]
\* A host keeps the longest delay that one of its origins asks for.
Learn(o, rules) ==
    /\ robots' = [robots EXCEPT ![o] = rules]
    /\ pace' = [Rested EXCEPT ![o.host].delay = Bigger(@, rules.delay)]

\* The rules come, or there are none (404, 410); they belong to the origin
\* that was asked first, wherever they came from.
RobotsCome ==
    /\ Answered /\ Len(walk) = 2
    /\ \E rules \in Rules \cup {Unbounded} : Learn(walk[1].address.origin, rules)
    /\ \E n \in spent.bytes..MaxBytes : spent' = [spent EXCEPT !.bytes = n]
    /\ walk' = <<walk[1]>>
    /\ UNCHANGED <<fetcher, sent>>

(***************************************************************************)
(* The helper is killed by its alarm or by the supervisor at the deadline, *)
(* or breaks; the run is over and closes its fetcher; time passes.         *)
(***************************************************************************)
Shut == [fetcher EXCEPT !.closed = TRUE, !.helper = FALSE]
\* The mutant looks at the clock between requests only.
ExpireBetween ==
    /\ Following /\ ~Here.waits /\ fetcher.left = 0
    /\ fetcher' = Shut /\ Rejected
    /\ UNCHANGED <<spent, pace, robots, sent>>
Expire ==
    /\ Following /\ fetcher.left = 0
    /\ fetcher' = Shut /\ Rejected
    /\ UNCHANGED <<spent, pace, robots, sent>>
HelperBreaks ==
    /\ Following
    /\ fetcher' = Shut /\ Rejected
    /\ UNCHANGED <<spent, pace, robots, sent>>
CloseFetcher ==
    /\ ~Following /\ ~fetcher.closed
    /\ fetcher' = Shut
    /\ UNCHANGED <<spent, pace, robots, walk, sent>>

CountUp(n) == IF n < LongAgo THEN n + 1 ELSE n
CountDown(n) == IF n = 0 THEN 0 ELSE n - 1
FetchTick ==
    /\ fetcher.helper /\ fetcher.left > 0
    /\ fetcher' = [fetcher EXCEPT !.left = @ - 1]
    /\ pace' = [h \in Hosts |-> [pace[h] EXCEPT !.since = CountUp(@), !.cool = CountDown(@)]]
    /\ UNCHANGED <<spent, robots, walk, sent>>

FetchNext ==
    \/ \E o \in Origins : FetchPage(o)
    \/ AskRobots \/ Denied \/ Refused \/ SendRequest
    \/ Redirected \/ Fails \/ PageComes \/ RobotsCome
    \/ Expire \/ HelperBreaks \/ CloseFetcher \/ FetchTick

\* Time passes, and alarms go off.
FetchFairness == WF_fetchVars(FetchTick) /\ WF_fetchVars(Expire)

FetchTypeOK ==
    /\ fetcher \in [left: 0..MaxSeconds, closed: BOOLEAN, helper: BOOLEAN]
    /\ spent \in [requests: 0..MaxRequests, bytes: 0..MaxBytes]
    /\ pace \in [Hosts -> [since: 0..LongAgo, cool: Nat, delay: Delays]]
    /\ robots \in [Origins -> Rules \cup {Unread}]
    /\ Len(walk) <= 2
    /\ \A i \in 1..Len(walk) : walk[i] \in [address: Addresses, seen: SUBSET Addresses, waits: BOOLEAN]

\* Over all pages, origins, redirects and robots.txt files of a run, no
\* helper that broke is replaced by one that counts from zero: no more than
\* the requests of the policy leave.  A page is asked for only where the
\* rules of its own origin were read and allow it, a fetch that began with
\* https never goes on without it, and every request keeps the distance to
\* the previous one that any origin of that host has asked for.
WithinRequests == sent <= MaxRequests
KeepsItsDistance ==
    sent' > sent =>
        \A o \in Origins : o.host = HostHere => pace[HostHere].since >= robots[o].delay
AsksOnlyWhatIsAllowed ==
    sent' > sent /\ ~ForRobots =>
        robots[Asked.origin].read /\ ~robots[Asked.origin].denies
StaysSecure ==
    Len(walk) = 1 /\ Len(walk') = 1 /\ walk[1].address.origin.secure =>
        walk'[1].address.origin.secure
FetchesPolitely ==
    /\ []WithinRequests
    /\ [][KeepsItsDistance /\ AsksOnlyWhatIsAllowed /\ StaysSecure]_fetchVars

\* Whatever servers and redirects do, a fetch comes to an end.
FetchesEnd == []<>~Following

FetchSpec == FetchInit /\ [][FetchNext]_fetchVars /\ FetchFairness
=============================================================================
