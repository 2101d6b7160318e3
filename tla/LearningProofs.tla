--------------------------- MODULE LearningProofs ---------------------------
(***************************************************************************)
(* Proofs about Learning for any sources, captures, workers, routes and    *)
(* limits: its inductive invariant, and that a session which has ended     *)
(* admits no call and, once it has paid, never begins again.  A step is    *)
(* first sorted by what it does to the sessions (SessionStep) and to the   *)
(* workers and their calls (WorkerStep); each part of the invariant then   *)
(* needs only the kinds of steps that touch it.                            *)
(***************************************************************************)
EXTENDS LearningHistory, TLAPS, FiniteSetTheorems

----------------------------------------------------------------------------
\* Types.

LEMMA Limits ==
    /\ 0 \in 0 .. MaxRounds /\ 0 \in 0 .. TimeLimit /\ 0 \in 0 .. Spacing /\ 0 \in 0 .. Cooldown
    /\ TimeLimit \in 0 .. TimeLimit /\ Spacing \in 0 .. Spacing /\ Cooldown \in 0 .. Cooldown
    /\ \A m \in Nat : \A n \in 0 .. m : Less(n) \in 0 .. m
<1>1. \A m \in Nat : 0 \in 0 .. m /\ m \in 0 .. m
  OBVIOUS
<1> QED
  BY <1>1, LearningConstants DEF Less

\* The rows that the actions write are rows.
LEMMA RowTypes ==
    ASSUME NEW r \in Sessions, NEW state \in SessionStates
    PROVE  /\ [r EXCEPT !.state = state] \in Sessions
           /\ [r EXCEPT !.state = state, !.cooldown = Cooldown] \in Sessions
           /\ [r EXCEPT !.state = state, !.due = 0] \in Sessions
           /\ [r EXCEPT !.due = Spacing] \in Sessions
           /\ \A n \in 0 .. MaxRounds : [r EXCEPT !.rounds = n, !.state = state] \in Sessions
           /\ \A n \in Nat, rounds \in SUBSET Nat :
                 [r EXCEPT !.state = state, !.due = 0, !.retries = n, !.retried = rounds] \in Sessions
BY Limits, Zenon DEF Sessions

LEMMA FreshType ==
    ASSUME NEW s \in Sources
    PROVE  [NoSession EXCEPT !.source = s, !.state = "queued", !.left = TimeLimit] \in Sessions
<1>1. NoSession \in Sessions
  BY Limits, SMT DEF NoSession, Sessions, SessionStates
<1>2. \A r \in Sessions :
        [r EXCEPT !.source = s, !.state = "queued", !.left = TimeLimit] \in Sessions
  BY Limits, Zenon DEF Sessions, SessionStates, Active
<1> QED
  BY <1>1, <1>2

LEMMA AgedType ==
    ASSUME NEW r \in Sessions
    PROVE  [r EXCEPT !.due = Less(@), !.left = Less(@), !.cooldown = Less(@)] \in Sessions
<1>1. Less(r.due) \in 0 .. Spacing /\ Less(r.left) \in 0 .. TimeLimit
      /\ Less(r.cooldown) \in 0 .. Cooldown
  BY Limits, LearningConstants DEF Sessions
<1>2. [r EXCEPT !.due = Less(@), !.left = Less(@), !.cooldown = Less(@)]
        = [r EXCEPT !.due = Less(r.due), !.left = Less(r.left), !.cooldown = Less(r.cooldown)]
  BY DEF Sessions
<1>3. \A d \in 0 .. Spacing, l \in 0 .. TimeLimit, k \in 0 .. Cooldown :
        [r EXCEPT !.due = d, !.left = l, !.cooldown = k] \in Sessions
  BY Zenon DEF Sessions
<1> QED
  BY <1>1, <1>2, <1>3

LEMMA NoRunType ==
    /\ NoRun \in Runs
    /\ \A c \in Captures, n \in 0 .. MaxRounds :
          [NoRun EXCEPT !.capture = c, !.number = n] \in Runs
    /\ \A c \in Captures, k \in Keys : [NoRun EXCEPT !.capture = c, !.key = k] \in Runs
    /\ \A r \in Runs, route \in Routes \cup {None} : [r EXCEPT !.route = route] \in Runs
<1>1. NoRun \in Runs
  BY Limits, SMT DEF NoRun, Runs, Keys
<1>2. \A r \in Runs :
        /\ \A c \in Captures, n \in 0 .. MaxRounds : [r EXCEPT !.capture = c, !.number = n] \in Runs
        /\ \A c \in Captures, k \in Keys : [r EXCEPT !.capture = c, !.key = k] \in Runs
        /\ \A route \in Routes \cup {None} : [r EXCEPT !.route = route] \in Runs
  BY Zenon DEF Runs
<1> QED
  BY <1>1, <1>2

LEMMA KeyType == ASSUME TypeOK, NEW c \in Captures PROVE Key(c) \in Keys
<1>1. session[c] \in Sessions
  BY DEF TypeOK
<1>2. session[c].rounds \in Nat /\ session[c].retries \in Nat
  BY <1>1, LearningConstants DEF Sessions
<1> QED
  BY <1>2 DEF Key, Keys

----------------------------------------------------------------------------
\* What a step does to sessions and attempts.

Same(c) ==
    /\ session'[c].state = session[c].state
    /\ session'[c].rounds = session[c].rounds
    /\ session'[c].source = session[c].source
Alone(c) == \A d \in Captures \ {c} : Same(d)

Quiet == (\A c \in Captures : Same(c)) /\ attempt' = attempt

Changes(c, from, to) ==
    /\ Alone(c)
    /\ session[c].state = from
    /\ session'[c].state = to
    /\ session'[c].source = session[c].source

Halts(c) ==
    /\ \E from \in Active, to \in Stopped : Changes(c, from, to)
    /\ session'[c].rounds = session[c].rounds
    /\ \A a \in Attempts :
          attempt'[a] = IF a[1] = c /\ attempt[a] = "calling" THEN "fenced" ELSE attempt[a]

Opens(c, s) ==
    /\ Alone(c)
    /\ session[c].state = "none"
    /\ session'[c].state = "queued"
    /\ session'[c].source = s
    /\ session'[c].rounds = 0
    /\ \A d \in Captures : session[d].source = s => session[d].state \notin Active
    /\ attempt' = attempt

Reopens(c) ==
    /\ Changes(c, "blocked", "queued")
    /\ session'[c].rounds = session[c].rounds
    /\ ~Paid(c)
    /\ \A d \in Captures \ {c} :
          session[d].source = session[c].source => session[d].state \notin Active
    /\ attempt' = attempt

Wins(c) ==
    /\ Changes(c, "queued", "running")
    /\ session[c].rounds < MaxRounds
    /\ session'[c].rounds = session[c].rounds + 1
    /\ Free
    /\ \A a \in Attempts :
          attempt'[a] = IF a = <<c, session[c].rounds + 1>> THEN "calling" ELSE attempt[a]

\* The worker ends the round.
Closes(c, state, verdict) ==
    /\ Changes(c, "running", state)
    /\ session'[c].rounds = session[c].rounds
    /\ \E w \in Workers : /\ pc[w] = "finishing" /\ run[w].capture = c
                          /\ run[w].number = session[c].rounds
    /\ \A a \in Attempts :
          attempt'[a] = IF a = <<c, session[c].rounds>> THEN verdict ELSE attempt[a]

SessionStep ==
    \/ Quiet
    \/ \E c \in Captures :
          \/ Halts(c) \/ Reopens(c) \/ Wins(c)
          \/ \E s \in Sources : Opens(c, s)
          \/ \E state \in {"queued", "exhausted"} : Closes(c, state, "rejected")
          \/ Closes(c, "awaiting_validation", "candidate")

LEMMA QuietStep == ASSUME UNCHANGED <<session, attempt>> PROVE Quiet
BY DEF Quiet, Same

\* A field or two of one row are written.
LEMMA OneRow ==
    ASSUME TypeOK, NEW c \in Captures, NEW r, session' = [session EXCEPT ![c] = r]
    PROVE  Alone(c) /\ session'[c] = r
BY DEF TypeOK, Alone, Same

LEMMA StopStep ==
    ASSUME TypeOK, NEW c \in Captures, NEW state \in Stopped, Stop(c, state),
           session[c].state \in Active
    PROVE  Halts(c)
<1>1. session[c] \in Sessions
  BY DEF TypeOK
<1>2. PICK r : /\ r = [session[c] EXCEPT !.state = state, !.cooldown = Cooldown]
               /\ session' = [session EXCEPT ![c] = r]
  BY DEF Stop, End
<1>3. r.state = state /\ r.rounds = session[c].rounds /\ r.source = session[c].source
  BY <1>1, <1>2 DEF Sessions
<1>4. Alone(c) /\ session'[c] = r
  BY <1>2, OneRow
<1> QED
  BY <1>3, <1>4 DEF Halts, Changes, Stop, Fence

LEMMA StartStep ==
    ASSUME TypeOK, NEW c \in Captures, NEW s \in Sources, Start(c, s)
    PROVE  Opens(c, s)
<1>1. PICK r : /\ r = [NoSession EXCEPT !.source = s, !.state = "queued", !.left = TimeLimit]
               /\ session' = [session EXCEPT ![c] = r]
  BY DEF Start
<1>2. r.state = "queued" /\ r.rounds = 0 /\ r.source = s
  BY <1>1 DEF NoSession
<1>3. Alone(c) /\ session'[c] = r
  BY <1>1, OneRow
<1> QED
  BY <1>2, <1>3 DEF Opens, Start, MayStart

LEMMA RetryStep ==
    ASSUME TypeOK, NEW c \in Captures, Retry(c)
    PROVE  Reopens(c)
<1>1. session[c] \in Sessions
  BY DEF TypeOK
<1>2. PICK n, rounds :
         session' = [session EXCEPT ![c] = [session[c] EXCEPT !.state = "queued", !.due = 0,
                        !.retries = n, !.retried = rounds]]
  BY DEF Retry
<1>3. PICK r : /\ r = [session[c] EXCEPT !.state = "queued", !.due = 0,
                          !.retries = n, !.retried = rounds]
               /\ session' = [session EXCEPT ![c] = r]
  BY <1>2
<1>4. r.state = "queued" /\ r.rounds = session[c].rounds /\ r.source = session[c].source
  BY <1>1, <1>3 DEF Sessions
<1>5. Alone(c) /\ session'[c] = r
  BY <1>3, OneRow
<1> QED
  BY <1>4, <1>5 DEF Reopens, Changes, Retry, MayRetry

LEMMA PublishStep ==
    ASSUME TypeOK, NEW c \in Captures, Publish(c)
    PROVE  Quiet \/ Halts(c)
<1>1. session[c] \in Sessions
  BY DEF TypeOK
<1>2. CASE Stop(c, "blocked")
  BY <1>2, StopStep DEF Publish, Active, Stopped
<1>3. CASE session' = [session EXCEPT ![c].due = Spacing] /\ UNCHANGED attempt
  <2>1. PICK r : /\ r = [session[c] EXCEPT !.due = Spacing]
                 /\ session' = [session EXCEPT ![c] = r]
    BY <1>3
  <2>2. r.state = session[c].state /\ r.rounds = session[c].rounds /\ r.source = session[c].source
    BY <1>1, <2>1 DEF Sessions
  <2>3. Alone(c) /\ session'[c] = r
    BY <2>1, OneRow
  <2> QED
    BY <1>3, <2>2, <2>3 DEF Quiet, Alone, Same
<1> QED
  BY <1>2, <1>3 DEF Publish

LEMMA TickStep == ASSUME TypeOK, Tick PROVE Quiet
<1>1. ASSUME NEW c \in Captures PROVE Same(c)
  <2>1. session[c] \in Sessions
    BY DEF TypeOK
  <2>2. session'[c] = [session[c] EXCEPT !.due = Less(@), !.left = Less(@), !.cooldown = Less(@)]
    BY DEF Tick
  <2> QED
    BY <2>1, <2>2 DEF Same, Sessions
<1> QED
  BY <1>1 DEF Quiet, Tick

\* The newest attempt of a capture that has begun a round.
LEMMA Newest ==
    ASSUME TypeOK, NEW c \in Captures, session[c].rounds # 0
    PROVE  <<c, session[c].rounds>> \in Attempts
<1>1. session[c] \in Sessions
  BY DEF TypeOK
<1> QED
  BY <1>1, LearningConstants DEF Sessions, Attempts

LEMMA ClaimStep ==
    ASSUME TypeOK, NEW w \in Workers, ClaimWins(w), run[w].capture \in Captures
    PROVE  Wins(run[w].capture)
<1> DEFINE c == run[w].capture
           n == session[c].rounds + 1
<1>1. session[c] \in Sessions
  BY DEF TypeOK
<1>2. PICK r : /\ r = [session[c] EXCEPT !.rounds = n, !.state = "running"]
               /\ session' = [session EXCEPT ![c] = r]
  BY DEF ClaimWins
<1>3. r.state = "running" /\ r.rounds = n /\ r.source = session[c].source
  BY <1>1, <1>2 DEF Sessions
<1>4. Alone(c) /\ session'[c] = r
  <2>1. c \in Captures /\ session' = [session EXCEPT ![c] = r]
    BY <1>2
  <2> HIDE DEF c
  <2> QED
    BY <2>1, OneRow
<1>5. session[c].state = "queued" /\ session[c].rounds < MaxRounds /\ Free
  BY DEF ClaimWins, Expected
<1>6. \A a \in Attempts : attempt'[a] = IF a = <<c, n>> THEN "calling" ELSE attempt[a]
  BY DEF ClaimWins, TypeOK
<1> QED
  BY <1>3, <1>4, <1>5, <1>6 DEF Wins, Changes

\* The worker that finishes is at the newest attempt.
LEMMA FinishStep ==
    ASSUME TypeOK, FencedAttempts, WorkersKnow, NEW w \in Workers, Finishing(w),
           NEW state, NEW verdict, NEW r,
           r.state = state, r.rounds = session[run[w].capture].rounds,
           r.source = session[run[w].capture].source,
           session' = [session EXCEPT ![run[w].capture] = r],
           attempt' = [attempt EXCEPT ![<<run[w].capture, run[w].number>>] = verdict]
    PROVE  Closes(run[w].capture, state, verdict)
<1> DEFINE c == run[w].capture
           n == run[w].number
<1>1. pc[w] = "finishing" /\ session[c].state = "running" /\ attempt[<<c, n>>] = "calling"
  BY DEF Finishing
<1>2. c \in Captures /\ n \in 1 .. MaxRounds
  BY <1>1 DEF WorkersKnow, Acting
<1>3. <<c, n>> \in Attempts
  BY <1>2 DEF Attempts
<1>4. n = session[c].rounds
  BY <1>1, <1>3 DEF FencedAttempts
<1>5. Alone(c) /\ session'[c] = r
  BY <1>2, OneRow
<1>6. \A a \in Attempts : attempt'[a] = IF a = <<c, n>> THEN verdict ELSE attempt[a]
  BY DEF TypeOK
<1> QED
  BY <1>1, <1>2, <1>4, <1>5, <1>6 DEF Closes, Changes

LEMMA FinishSteps ==
    ASSUME TypeOK, FencedAttempts, WorkersKnow, NEW w \in Workers
    PROVE  /\ FinishReady(w) => Closes(run[w].capture, "awaiting_validation", "candidate")
           /\ FinishExhausted(w) => Closes(run[w].capture, "exhausted", "rejected")
           /\ FinishRejected(w) => Closes(run[w].capture, "queued", "rejected")
<1> DEFINE c == run[w].capture
<1>1. ASSUME Finishing(w) PROVE session[c] \in Sessions
  BY <1>1 DEF Finishing, WorkersKnow, TypeOK, Acting
<1>2. ASSUME FinishReady(w) PROVE Closes(c, "awaiting_validation", "candidate")
  <2>1. Finishing(w) /\ session[c] \in Sessions
    BY <1>1, <1>2 DEF FinishReady
  <2>2. PICK r : /\ r = [session[c] EXCEPT !.state = "awaiting_validation"]
                 /\ session' = [session EXCEPT ![c] = r]
    BY <1>2 DEF FinishReady
  <2>3. r.state = "awaiting_validation" /\ r.rounds = session[c].rounds
        /\ r.source = session[c].source
    BY <2>1, <2>2 DEF Sessions
  <2>4. attempt' = [attempt EXCEPT ![<<c, run[w].number>>] = "candidate"]
    BY <1>2 DEF FinishReady
  <2> QED
    BY <2>1, <2>2, <2>3, <2>4, FinishStep
<1>3. ASSUME FinishExhausted(w) PROVE Closes(c, "exhausted", "rejected")
  <2>1. Finishing(w) /\ session[c] \in Sessions
    BY <1>1, <1>3 DEF FinishExhausted
  <2>2. PICK r : /\ r = [session[c] EXCEPT !.state = "exhausted", !.cooldown = Cooldown]
                 /\ session' = [session EXCEPT ![c] = r]
    BY <1>3 DEF FinishExhausted, End
  <2>3. r.state = "exhausted" /\ r.rounds = session[c].rounds /\ r.source = session[c].source
    BY <2>1, <2>2 DEF Sessions
  <2>4. attempt' = [attempt EXCEPT ![<<c, run[w].number>>] = "rejected"]
    BY <1>3 DEF FinishExhausted
  <2> QED
    BY <2>1, <2>2, <2>3, <2>4, FinishStep
<1>4. ASSUME FinishRejected(w) PROVE Closes(c, "queued", "rejected")
  <2>1. Finishing(w) /\ session[c] \in Sessions
    BY <1>1, <1>4 DEF FinishRejected
  <2>2. PICK r : /\ r = [session[c] EXCEPT !.state = "queued", !.due = 0]
                 /\ session' = [session EXCEPT ![c] = r]
    BY <1>4 DEF FinishRejected
  <2>3. r.state = "queued" /\ r.rounds = session[c].rounds /\ r.source = session[c].source
    BY <2>1, <2>2 DEF Sessions
  <2>4. attempt' = [attempt EXCEPT ![<<c, run[w].number>>] = "rejected"]
    BY <1>4 DEF FinishRejected
  <2> QED
    BY <2>1, <2>2, <2>3, <2>4, FinishStep
<1> QED
  BY <1>2, <1>3, <1>4

LEMMA BlockStep ==
    ASSUME TypeOK, FencedAttempts, WorkersKnow, NEW w \in Workers, Block(w)
    PROVE  Quiet \/ Halts(run[w].capture)
<1> DEFINE c == run[w].capture
           n == run[w].number
<1>1. c \in Captures
  BY DEF Block, WorkersKnow
<1>2. CASE Blockable(w) /\ Stop(c, "blocked")
  <2>1. session[c].state \in Active
    <3>1. CASE n = 0
      BY <1>2, <3>1 DEF Blockable, Expected, Active
    <3>2. CASE n # 0
      <4>1. attempt[<<c, n>>] = "calling" /\ n = session[c].rounds
        BY <1>2, <3>2 DEF Blockable
      <4>2. <<c, n>> \in Attempts
        BY <1>1, <3>2, <4>1, Newest
      <4> QED
        BY <4>1, <4>2 DEF FencedAttempts, Active
    <3> QED
      BY <3>1, <3>2
  <2> QED
    BY <1>1, <1>2, <2>1, StopStep DEF Stopped
<1> QED
  BY <1>2, QuietStep DEF Block

LEMMA SessionSteps ==
    ASSUME TypeOK, FencedAttempts, WorkersKnow, [Next]_vars
    PROVE  SessionStep
<1>1. ASSUME UNCHANGED <<session, attempt>> PROVE SessionStep
  BY <1>1, QuietStep DEF SessionStep
<1>2. ASSUME NEW c \in Captures, Admin(c) PROVE SessionStep
  <2>1. ASSUME NEW s \in Sources, Start(c, s) PROVE SessionStep
    BY <2>1, StartStep DEF SessionStep
  <2>2. ASSUME Cancel(c) PROVE SessionStep
    BY <2>2, StopStep DEF Cancel, Stopped, SessionStep
  <2>3. ASSUME Retry(c) PROVE SessionStep
    BY <2>3, RetryStep DEF SessionStep
  <2> QED
    BY <1>2, <2>1, <2>2, <2>3 DEF Admin
<1>3. ASSUME NEW c \in Captures, Publish(c) \/ Recover(c) PROVE SessionStep
  BY <1>3, PublishStep, StopStep DEF Recover, Overdue, Stopped, SessionStep
<1>4. ASSUME NEW w \in Workers, Learn(w) PROVE SessionStep
  <2> DEFINE c == run[w].capture
  <2>1. ASSUME pc[w] # "idle" PROVE c \in Captures
    BY <2>1 DEF WorkersKnow
  <2>2. ASSUME ClaimStops(w) \/ Parse(w) \/ FinishLate(w) PROVE SessionStep
    <3>1. c \in Captures
      BY <2>1, <2>2 DEF ClaimStops, Parse, FinishLate
    <3>2. UNCHANGED <<session, attempt>> \/ (Stop(c, "blocked") /\ session[c].state \in Active)
      BY <2>2 DEF ClaimStops, Parse, FinishLate, Current, Active
    <3> HIDE DEF c
    <3> QED
      BY <1>1, <3>1, <3>2, StopStep DEF Stopped, SessionStep
  <2>3. ASSUME ClaimWins(w) PROVE SessionStep
    BY <2>1, <2>3, ClaimStep DEF ClaimWins, SessionStep
  <2>4. ASSUME FinishReady(w) \/ FinishExhausted(w) \/ FinishRejected(w) PROVE SessionStep
    <3>1. c \in Captures
      BY <2>1, <2>4 DEF FinishReady, FinishExhausted, FinishRejected, Finishing
    <3> QED
      BY <2>4, <3>1, FinishSteps DEF SessionStep
  <2>5. ASSUME Block(w) PROVE SessionStep
    <3>1. c \in Captures
      BY <2>1, <2>5 DEF Block
    <3> QED
      BY <2>5, <3>1, BlockStep DEF SessionStep
  <2>6. ASSUME \/ \E m \in queue : Receive(w, m)
               \/ \E r \in Routes : Reserve(w, r)
               \/ ClaimRefused(w) \/ Settle(w) \/ Fails(w) \/ Crash(w)
        PROVE  SessionStep
    BY <1>1, <2>6 DEF Receive, Reserve, ClaimRefused, Settle, Fails, Crash
  <2> QED
    BY <1>4, <2>2, <2>3, <2>4, <2>5, <2>6 DEF Learn
<1>5. ASSUME Tick PROVE SessionStep
  BY <1>5, TickStep DEF SessionStep
<1> QED
  BY <1>1, <1>2, <1>3, <1>4, <1>5 DEF Next, vars, Reconcile, LoseMessage

----------------------------------------------------------------------------
\* What the kinds of session steps preserve.

\* Whatever a step does to a session, it does not lose rounds, but that one
\* which has not begun begins with none.
LEMMA FencedStep ==
    ASSUME TypeOK, FencedAttempts, NothingBeforeStart, SessionStep
    PROVE  FencedAttempts' /\ NothingBeforeStart'
<1>0. \A c \in Captures : session[c].rounds \in Nat
  BY LearningConstants DEF TypeOK, Sessions
<1>1. CASE Quiet
  BY <1>1 DEF Quiet, Same, FencedAttempts, NothingBeforeStart, Attempts
<1>2. ASSUME NEW c \in Captures, Halts(c) PROVE FencedAttempts' /\ NothingBeforeStart'
  BY <1>2 DEF Halts, Changes, Alone, Same, FencedAttempts, NothingBeforeStart, Attempts,
              Active, Stopped
<1>3. ASSUME NEW c \in Captures, Reopens(c) \/ \E s \in Sources : Opens(c, s)
      PROVE  FencedAttempts' /\ NothingBeforeStart'
  BY <1>3 DEF Reopens, Opens, Changes, Alone, Same, FencedAttempts, NothingBeforeStart, Attempts
<1>4. ASSUME NEW c \in Captures, Wins(c) PROVE FencedAttempts' /\ NothingBeforeStart'
  BY <1>0, <1>4 DEF Wins, Changes, Alone, Same, FencedAttempts, NothingBeforeStart, Attempts
<1>5. ASSUME NEW c \in Captures, NEW state \in {"queued", "exhausted", "awaiting_validation"},
             NEW verdict \in {"rejected", "candidate"}, Closes(c, state, verdict)
      PROVE  FencedAttempts' /\ NothingBeforeStart'
  BY <1>5 DEF Closes, Changes, Alone, Same, FencedAttempts, NothingBeforeStart, Attempts
<1> QED
  BY <1>1, <1>2, <1>3, <1>4, <1>5 DEF SessionStep

LEMMA ActiveStep ==
    ASSUME OneActivePerSource, OneRunning, SessionStep
    PROVE  OneActivePerSource' /\ OneRunning'
<1>1. CASE Quiet
  BY <1>1 DEF Quiet, Same, OneActivePerSource, OneRunning
<1>2. ASSUME NEW c \in Captures, Halts(c) PROVE OneActivePerSource' /\ OneRunning'
  BY <1>2 DEF Halts, Changes, Alone, Same, OneActivePerSource, OneRunning, Active, Stopped
<1>3. ASSUME NEW c \in Captures, Reopens(c) PROVE OneActivePerSource' /\ OneRunning'
  BY <1>3 DEF Reopens, Changes, Alone, Same, OneActivePerSource, OneRunning, Active
<1>4. ASSUME NEW c \in Captures, NEW s \in Sources, Opens(c, s)
      PROVE  OneActivePerSource' /\ OneRunning'
  BY <1>4 DEF Opens, Alone, Same, OneActivePerSource, OneRunning, Active
<1>5. ASSUME NEW c \in Captures, Wins(c) PROVE OneActivePerSource' /\ OneRunning'
  BY <1>5 DEF Wins, Changes, Alone, Same, Free, OneActivePerSource, OneRunning, Active
<1>6. ASSUME NEW c \in Captures, NEW state \in {"queued", "exhausted", "awaiting_validation"},
             NEW verdict, Closes(c, state, verdict)
      PROVE  OneActivePerSource' /\ OneRunning'
  BY <1>6 DEF Closes, Changes, Alone, Same, OneActivePerSource, OneRunning, Active
<1> QED
  BY <1>1, <1>2, <1>3, <1>4, <1>5, <1>6 DEF SessionStep

----------------------------------------------------------------------------
\* Type correctness of every step.

LEMMA StopType ==
    ASSUME TypeOK, NEW c \in Captures, NEW state \in Stopped, Stop(c, state)
    PROVE  session' \in [Captures -> Sessions] /\ attempt' \in [Attempts -> AttemptStates]
<1>1. session[c] \in Sessions /\ state \in SessionStates
  BY DEF TypeOK, SessionStates
<1>2. [session[c] EXCEPT !.state = state, !.cooldown = Cooldown] \in Sessions
  BY <1>1, RowTypes
<1> QED
  BY <1>2 DEF Stop, End, Fence, TypeOK, AttemptStates

LEMMA LeaveType ==
    ASSUME TypeOK, NEW w \in Workers, Leave(w)
    PROVE  pc' \in [Workers -> Steps] /\ run' \in [Workers -> Runs]
BY NoRunType DEF Leave, GoTo, TypeOK, Steps

LEMMA RouteType ==
    ASSUME TypeOK, NEW w \in Workers, NEW r \in Routes \cup {None},
           run' = [run EXCEPT ![w].route = r]
    PROVE  run' \in [Workers -> Runs]
<1>1. run[w] \in Runs
  BY DEF TypeOK
<1>2. [run[w] EXCEPT !.route = r] \in Runs
  BY <1>1, NoRunType
<1> QED
  BY <1>2 DEF TypeOK

LEMMA GoToType ==
    ASSUME TypeOK, NEW w \in Workers, NEW step \in Steps, GoTo(w, step)
    PROVE  pc' \in [Workers -> Steps]
BY DEF GoTo, TypeOK

\* What administrators and the delivery do.
LEMMA AdminType ==
    ASSUME TypeOK, NEW c \in Captures, Admin(c) \/ Publish(c) \/ Recover(c)
    PROVE  TypeOK'
<1>1. session[c] \in Sessions
  BY DEF TypeOK
<1>2. ASSUME NEW s \in Sources, Start(c, s) PROVE TypeOK'
  BY <1>2, FreshType DEF Start, TypeOK
<1>3. ASSUME Cancel(c) \/ Recover(c) PROVE TypeOK'
  BY <1>3, StopType DEF Cancel, Recover, Stopped, TypeOK
<1>4. ASSUME Retry(c) PROVE TypeOK'
  <2>1. PICK n, rounds :
          /\ n = session[c].retries + 1 /\ rounds = session[c].retried \cup {session[c].rounds}
          /\ session' = [session EXCEPT ![c] = [session[c] EXCEPT !.state = "queued", !.due = 0,
                            !.retries = n, !.retried = rounds]]
    BY <1>4 DEF Retry
  <2>2. n \in Nat /\ rounds \in SUBSET Nat
    BY <1>1, <2>1, LearningConstants DEF Sessions
  <2>3. [session[c] EXCEPT !.state = "queued", !.due = 0, !.retries = n, !.retried = rounds]
          \in Sessions
    BY <1>1, <2>2, RowTypes DEF SessionStates, Active
  <2> QED
    BY <1>4, <2>1, <2>3 DEF Retry, TypeOK
<1>5. ASSUME Publish(c) PROVE TypeOK'
  <2>1. [capture |-> c, key |-> Key(c)] \in Messages
    BY KeyType DEF Messages
  <2>2. [session[c] EXCEPT !.due = Spacing] \in Sessions
    BY <1>1, RowTypes DEF SessionStates
  <2>3. session' \in [Captures -> Sessions] /\ attempt' \in [Attempts -> AttemptStates]
    <3>1. CASE Stop(c, "blocked")
      BY <3>1, StopType DEF Stopped
    <3>2. CASE session' = [session EXCEPT ![c].due = Spacing] /\ UNCHANGED attempt
      BY <2>2, <3>2 DEF TypeOK
    <3> QED
      BY <1>5, <3>1, <3>2 DEF Publish
  <2> QED
    BY <1>5, <2>1, <2>3 DEF Publish, TypeOK
<1> QED
  BY <1>2, <1>3, <1>4, <1>5 DEF Admin

\* Claiming and ending a round.
LEMMA RoundType ==
    ASSUME TypeOK, WorkersKnow, NEW w \in Workers,
           ClaimStops(w) \/ ClaimWins(w) \/ Parse(w) \/ FinishLate(w) \/ FinishReady(w)
               \/ FinishExhausted(w) \/ FinishRejected(w) \/ Block(w)
    PROVE  TypeOK'
<1> DEFINE c == run[w].capture
           n == run[w].number
<1>1. c \in Captures /\ n \in 0 .. MaxRounds
  <2>1. pc[w] # "idle"
    BY DEF ClaimStops, ClaimWins, Parse, FinishLate, FinishReady, FinishExhausted,
           FinishRejected, Finishing, Block
  <2> QED
    BY <2>1 DEF WorkersKnow, TypeOK, Runs
<1>2. session[c] \in Sessions
  BY <1>1 DEF TypeOK
<1>3. ASSUME ClaimStops(w) \/ Parse(w) \/ FinishLate(w) \/ Block(w) PROVE TypeOK'
  <2>1. UNCHANGED <<session, attempt>> \/ Stop(c, "blocked")
    BY <1>3 DEF ClaimStops, Parse, FinishLate, Block
  <2>2. session' \in [Captures -> Sessions] /\ attempt' \in [Attempts -> AttemptStates]
    <3> HIDE DEF c
    <3> QED
      BY <1>1, <2>1, StopType DEF Stopped, TypeOK
  <2>3. Leave(w) \/ (GoTo(w, "finishing") /\ UNCHANGED run)
    BY <1>3 DEF ClaimStops, Parse, FinishLate, Block
  <2>4. pc' \in [Workers -> Steps] /\ run' \in [Workers -> Runs]
    BY <2>3, LeaveType, GoToType DEF Steps, TypeOK
  <2>5. UNCHANGED <<call, queue>>
    BY <1>3 DEF ClaimStops, Parse, FinishLate, Block
  <2> QED
    BY <2>2, <2>4, <2>5 DEF TypeOK
<1>4. ASSUME ClaimWins(w) PROVE TypeOK'
  <2> DEFINE m == session[c].rounds + 1
  <2>1. m \in 0 .. MaxRounds
    BY <1>2, <1>4, LearningConstants DEF ClaimWins, Sessions
  <2>2. \A k \in 0 .. MaxRounds :
          /\ [session[c] EXCEPT !.rounds = k, !.state = "running"] \in Sessions
          /\ [NoRun EXCEPT !.capture = c, !.number = k] \in Runs
    BY <1>1, <1>2, RowTypes, NoRunType DEF SessionStates, Active
  <2>3. /\ session' = [session EXCEPT ![c] = [session[c] EXCEPT !.rounds = m, !.state = "running"]]
        /\ attempt' = [attempt EXCEPT ![<<c, m>>] = "calling"]
        /\ run' = [run EXCEPT ![w] = [NoRun EXCEPT !.capture = c, !.number = m]]
        /\ GoTo(w, "proposing") \/ GoTo(w, "blocking")
        /\ UNCHANGED <<call, queue>>
    BY <1>4 DEF ClaimWins
  <2> HIDE DEF m
  <2>4. pc' \in [Workers -> Steps]
    BY <2>3, GoToType DEF Steps
  <2> QED
    BY <2>1, <2>2, <2>3, <2>4 DEF TypeOK, AttemptStates
<1>5. ASSUME FinishReady(w) PROVE TypeOK'
  <2>1. [session[c] EXCEPT !.state = "awaiting_validation"] \in Sessions
    BY <1>2, RowTypes DEF SessionStates
  <2> QED
    BY <1>5, <2>1, LeaveType DEF FinishReady, TypeOK, AttemptStates
<1>6. ASSUME FinishExhausted(w) PROVE TypeOK'
  <2>1. [session[c] EXCEPT !.state = "exhausted", !.cooldown = Cooldown] \in Sessions
    BY <1>2, RowTypes DEF SessionStates, Stopped
  <2> QED
    BY <1>6, <2>1, LeaveType DEF FinishExhausted, End, TypeOK, AttemptStates
<1>7. ASSUME FinishRejected(w) PROVE TypeOK'
  <2>1. [session[c] EXCEPT !.state = "queued", !.due = 0] \in Sessions
    BY <1>2, RowTypes DEF SessionStates, Active
  <2>2. [NoRun EXCEPT !.capture = c, !.key = Key(c)] \in Runs
    BY <1>1, KeyType, NoRunType
  <2>3. run' \in [Workers -> Runs] /\ pc' \in [Workers -> Steps]
    BY <1>7, <2>2, GoToType DEF FinishRejected, TypeOK, Steps
  <2> QED
    BY <1>7, <2>1, <2>3 DEF FinishRejected, TypeOK, AttemptStates
<1> QED
  BY <1>3, <1>4, <1>5, <1>6, <1>7

LEMMA TypeStep == ASSUME TypeOK, WorkersKnow, [Next]_vars PROVE TypeOK'
<1>1. ASSUME NEW c \in Captures, Admin(c) \/ Publish(c) \/ Recover(c) PROVE TypeOK'
  BY <1>1, AdminType
<1>2. ASSUME NEW k \in Calls, Reconcile(k) PROVE TypeOK'
  BY <1>2 DEF Reconcile, TypeOK, CallStates
<1>3. ASSUME NEW w \in Workers, Learn(w) PROVE TypeOK'
  <2>1. ASSUME NEW m \in queue, Receive(w, m) PROVE TypeOK'
    <3>1. m.capture \in Captures /\ m.key \in Keys
      BY DEF TypeOK, Messages
    <3>2. [NoRun EXCEPT !.capture = m.capture, !.key = m.key] \in Runs
      BY <3>1, NoRunType
    <3> QED
      BY <2>1, <3>2, GoToType DEF Receive, TypeOK, Steps
  <2>2. ASSUME ClaimRefused(w) \/ Crash(w) PROVE TypeOK'
    BY <2>2, LeaveType DEF ClaimRefused, Crash, TypeOK
  <2>3. ASSUME NEW r \in Routes, Reserve(w, r) PROVE TypeOK'
    <3>1. pc' \in [Workers -> Steps] /\ run' \in [Workers -> Runs]
      BY <2>3, GoToType, RouteType DEF Reserve, Steps, TypeOK
    <3> QED
      BY <2>3, <3>1 DEF Reserve, TypeOK, CallStates, Open
  <2>4. ASSUME Settle(w) PROVE TypeOK'
    <3>1. pc' \in [Workers -> Steps] /\ run' \in [Workers -> Runs]
      BY <2>4, GoToType, RouteType DEF Settle, AfterUnknown, Steps
    <3> QED
      BY <2>4, <3>1 DEF Settle, TypeOK, CallStates, Open
  <2>5. ASSUME Fails(w) PROVE TypeOK'
    <3>1. pc' \in [Workers -> Steps] /\ run' \in [Workers -> Runs]
      BY <2>5, GoToType, RouteType DEF Fails, Steps
    <3> QED
      BY <2>5, <3>1 DEF Fails, TypeOK
  <2> QED
    BY <1>3, <2>1, <2>2, <2>3, <2>4, <2>5, RoundType DEF Learn
<1>4. ASSUME Tick PROVE TypeOK'
  BY <1>4, AgedType DEF Tick, TypeOK
<1>5. ASSUME UNCHANGED vars \/ \E m \in queue : LoseMessage(m) PROVE TypeOK'
  BY <1>5 DEF vars, LoseMessage, TypeOK
<1> QED
  BY <1>1, <1>2, <1>3, <1>4, <1>5 DEF Next

----------------------------------------------------------------------------
\* What a step does to workers and calls.

Calm(w) == pc'[w] = pc[w] /\ run'[w] = run[w]
Others(w) == \A v \in Workers \ {w} : Calm(v)

\* The worker does nothing for an attempt any more, or not yet.
Rests(w) ==
    /\ pc'[w] \notin Acting
    /\ pc'[w] # "idle" => run'[w].capture \in Captures
    /\ call' = call

Tries(w) == pc[w] = "parsing" /\ pc'[w] = "finishing" /\ run'[w] = run[w] /\ call' = call

\* It has claimed a round.
Takes(w) ==
    LET c == run'[w].capture IN
    /\ c \in Captures
    /\ Wins(c)
    /\ pc'[w] = "proposing"
    /\ run'[w].number = session[c].rounds + 1
    /\ run'[w].route = None
    /\ call' = call

Holds(w) ==
    /\ run'[w].capture = run[w].capture
    /\ run'[w].number = run[w].number

\* It reserves a call on route r.
Admits(w, r) ==
    /\ pc[w] = "proposing"
    /\ Current(run[w].capture, run[w].number)
    /\ call[<<run[w].capture, run[w].number, r>>] = "none"
    /\ call' = [call EXCEPT ![<<run[w].capture, run[w].number, r>>] = "reserved"]
    /\ Holds(w)
    /\ pc'[w] = "blocking" \/ (pc'[w] = "calling" /\ run'[w].route = r)

\* It has its call decided: with "settled" it may go on.
Decides(w, state) ==
    /\ pc[w] = "calling"
    /\ call[<<run[w].capture, run[w].number, run[w].route>>] = "reserved"
    /\ call' = [call EXCEPT ![<<run[w].capture, run[w].number, run[w].route>>] = state]
    /\ Holds(w)
    /\ run'[w].route = None
    /\ \/ state = "settled" /\ pc'[w] \in {"parsing", "proposing", "blocking"}
       \/ state = "unknown" /\ pc'[w] = "blocking"

AllCalm == \A w \in Workers : Calm(w)

WorkerStep ==
    \/ AllCalm /\ call' = call
    \/ AllCalm /\ UNCHANGED <<session, attempt>> /\ \E k \in Calls : Reconcile(k)
    \/ \E w \in Workers :
          /\ Others(w)
          /\ \/ Rests(w) \/ Tries(w) \/ Takes(w)
             \/ UNCHANGED <<session, attempt>> /\ \E r \in Routes : Admits(w, r)
             \/ UNCHANGED <<session, attempt>> /\ \E state \in {"settled", "unknown"} : Decides(w, state)

LEMMA OneWorker ==
    ASSUME TypeOK, NEW w \in Workers, NEW step, NEW r,
           pc' = [pc EXCEPT ![w] = step], run' = [run EXCEPT ![w] = r]
    PROVE  Others(w) /\ pc'[w] = step /\ run'[w] = r
BY DEF TypeOK, Others, Calm

LEMMA LeaveStep ==
    ASSUME TypeOK, NEW w \in Workers, Leave(w), call' = call
    PROVE  Others(w) /\ Rests(w)
<1>1. pc' = [pc EXCEPT ![w] = "idle"] /\ run' = [run EXCEPT ![w] = NoRun]
  BY DEF Leave, GoTo
<1>2. Others(w) /\ pc'[w] = "idle"
  BY <1>1, OneWorker, Zenon
<1> QED
  BY <1>2 DEF Rests, Acting

\* The worker that changes only its route.
LEMMA RouteStep ==
    ASSUME TypeOK, NEW w \in Workers, NEW step, NEW r,
           pc' = [pc EXCEPT ![w] = step], run' = [run EXCEPT ![w].route = r]
    PROVE  /\ Others(w) /\ pc'[w] = step /\ Holds(w)
           /\ run'[w].route = r
<1>1. run[w] \in Runs
  BY DEF TypeOK
<1>2. PICK h : h = [run[w] EXCEPT !.route = r] /\ run' = [run EXCEPT ![w] = h]
  OBVIOUS
<1>3. h.route = r /\ h.capture = run[w].capture /\ h.number = run[w].number
  BY <1>1, <1>2 DEF Runs
<1>4. Others(w) /\ pc'[w] = step /\ run'[w] = h
  BY <1>2, OneWorker
<1> QED
  BY <1>3, <1>4 DEF Holds

LEMMA ReserveStep ==
    ASSUME TypeOK, NEW w \in Workers, NEW r \in Routes, Reserve(w, r)
    PROVE  Others(w) /\ Admits(w, r)
<1>1. CASE GoTo(w, "calling") /\ run' = [run EXCEPT ![w].route = r]
  <2>1. Others(w) /\ pc'[w] = "calling" /\ Holds(w) /\ run'[w].route = r
    BY <1>1, RouteStep DEF GoTo
  <2> QED
    BY <2>1 DEF Reserve, Admitted, Admits
<1>2. CASE GoTo(w, "blocking") /\ UNCHANGED run
  <2>1. Others(w) /\ pc'[w] = "blocking" /\ Holds(w)
    BY <1>2 DEF GoTo, Holds, Others, Calm, TypeOK
  <2> QED
    BY <2>1 DEF Reserve, Admitted, Admits
<1> QED
  BY <1>1, <1>2 DEF Reserve

LEMMA SettleStep ==
    ASSUME TypeOK, NEW w \in Workers, Settle(w)
    PROVE  Others(w) /\ \E state \in {"settled", "unknown"} : Decides(w, state)
<1>1. run' = [run EXCEPT ![w].route = None]
  BY DEF Settle
<1>2. ASSUME NEW step \in {"parsing", "proposing", "blocking"}, GoTo(w, step)
      PROVE  /\ Others(w) /\ pc'[w] = step /\ Holds(w)
             /\ run'[w].route = None
  BY <1>1, <1>2, RouteStep DEF GoTo
<1> QED
  BY <1>2 DEF Settle, AfterUnknown, Decides

LEMMA WorkerSteps ==
    ASSUME TypeOK, FencedAttempts, WorkersKnow, [Next]_vars
    PROVE  WorkerStep
<1>1. ASSUME UNCHANGED <<pc, run, call>> PROVE WorkerStep
  BY <1>1 DEF WorkerStep, AllCalm, Calm
<1>2. ASSUME NEW k \in Calls, Reconcile(k) PROVE WorkerStep
  BY <1>2 DEF WorkerStep, AllCalm, Calm, Reconcile
<1>3. ASSUME NEW w \in Workers, Learn(w) PROVE WorkerStep
  <2>0. ASSUME Others(w), Rests(w) PROVE WorkerStep
    BY <2>0 DEF WorkerStep
  <2>1. ASSUME NEW m \in queue, Receive(w, m) PROVE WorkerStep
    <3>1. PICK r : /\ r = [NoRun EXCEPT !.capture = m.capture, !.key = m.key]
                   /\ run' = [run EXCEPT ![w] = r]
                   /\ pc' = [pc EXCEPT ![w] = "claiming"]
      BY <2>1 DEF Receive, GoTo
    <3>2. r.capture \in Captures
      BY <3>1 DEF NoRun, TypeOK, Messages
    <3>3. Others(w) /\ pc'[w] = "claiming" /\ run'[w] = r
      BY <3>1, OneWorker, Zenon
    <3> QED
      BY <2>0, <2>1, <3>2, <3>3 DEF Receive, Rests, Acting
  <2>2. ASSUME Leave(w), call' = call PROVE WorkerStep
    BY <2>0, <2>2, LeaveStep
  <2>3. ASSUME ClaimWins(w) PROVE WorkerStep
    <3> DEFINE c == run[w].capture
               n == session[c].rounds + 1
    <3>1. c \in Captures
      BY <2>3 DEF ClaimWins, WorkersKnow
    <3>2. Wins(c)
      BY <2>3, <3>1, ClaimStep
    <3>3. PICK r : r = [NoRun EXCEPT !.capture = c, !.number = n]
                   /\ run' = [run EXCEPT ![w] = r]
      BY <2>3 DEF ClaimWins
    <3>4. r.capture = c /\ r.number = n /\ r.route = None
      BY <3>3 DEF NoRun
    <3>5. PICK step \in {"proposing", "blocking"} : pc' = [pc EXCEPT ![w] = step]
      BY <2>3 DEF ClaimWins, GoTo
    <3>6. Others(w) /\ pc'[w] = step /\ run'[w] = r
      BY <3>3, <3>5, OneWorker, Zenon
    <3>7. call' = call
      BY <2>3 DEF ClaimWins
    <3> HIDE DEF c, n
    <3>8. CASE step = "proposing"
      <4>1. Takes(w)
        BY <3>1, <3>2, <3>4, <3>6, <3>7, <3>8 DEF Takes, n
      <4> QED
        BY <3>6, <4>1 DEF WorkerStep
    <3>9. CASE step = "blocking"
      BY <2>0, <3>1, <3>4, <3>6, <3>7, <3>9 DEF Rests, Acting
    <3> QED
      BY <3>8, <3>9
  <2>4. ASSUME NEW r \in Routes, Reserve(w, r) PROVE WorkerStep
    BY <2>4, ReserveStep DEF WorkerStep, Reserve
  <2>5. ASSUME Settle(w) PROVE WorkerStep
    BY <2>5, SettleStep DEF WorkerStep, Settle
  <2>6. ASSUME Parse(w) PROVE WorkerStep
    <3>1. CASE GoTo(w, "finishing") /\ UNCHANGED run
      <4>1. Others(w) /\ pc'[w] = "finishing" /\ run'[w] = run[w]
        BY <3>1 DEF GoTo, Others, Calm, TypeOK
      <4> QED
        BY <2>6, <4>1 DEF Parse, Tries, WorkerStep
    <3> QED
      BY <2>2, <2>6, <3>1 DEF Parse
  <2>7. ASSUME FinishRejected(w) PROVE WorkerStep
    <3> DEFINE c == run[w].capture
    <3>1. c \in Captures
      BY <2>7 DEF FinishRejected, Finishing, WorkersKnow
    <3>2. CASE GoTo(w, "claiming") /\ run' = [run EXCEPT ![w] = [NoRun EXCEPT !.capture = c, !.key = Key(c)]]
      <4>1. PICK r : /\ r = [NoRun EXCEPT !.capture = c, !.key = Key(c)]
                     /\ run' = [run EXCEPT ![w] = r]
                     /\ pc' = [pc EXCEPT ![w] = "claiming"]
        BY <3>2 DEF GoTo
      <4>2. r.capture \in Captures
        BY <3>1, <4>1 DEF NoRun
      <4>3. Others(w) /\ pc'[w] = "claiming" /\ run'[w] = r
        BY <4>1, OneWorker, Zenon
      <4> QED
        BY <2>0, <2>7, <4>2, <4>3 DEF FinishRejected, Rests, Acting
    <3>3. CASE GoTo(w, "blocking") /\ UNCHANGED run
      <4>1. Others(w) /\ pc'[w] = "blocking" /\ run'[w] = run[w]
        BY <3>3 DEF GoTo, Others, Calm, TypeOK
      <4> QED
        BY <2>0, <2>7, <3>1, <4>1 DEF FinishRejected, Rests, Acting
    <3> QED
      BY <2>7, <3>2, <3>3 DEF FinishRejected
  <2>8. ASSUME Fails(w) PROVE WorkerStep
    <3>1. Others(w) /\ pc'[w] = "blocking" /\ Holds(w)
      BY <2>8, RouteStep DEF Fails, GoTo
    <3>2. run[w].capture \in Captures /\ call' = call
      BY <2>8 DEF Fails, WorkersKnow
    <3> QED
      BY <2>0, <3>1, <3>2 DEF Rests, Acting, Holds
  <2> QED
    BY <1>3, <2>1, <2>2, <2>3, <2>4, <2>5, <2>6, <2>7, <2>8
       DEF Learn, ClaimRefused, ClaimStops, FinishLate, FinishReady, FinishExhausted, Block, Crash
<1> QED
  BY <1>1, <1>2, <1>3 DEF Next, vars, Admin, Start, Cancel, Retry, Publish, Recover, LoseMessage, Tick

----------------------------------------------------------------------------
\* Calls and rounds only go forward.

LEMMA RoundsGrow ==
    ASSUME TypeOK, NothingBeforeStart, SessionStep, NEW c \in Captures
    PROVE  /\ session[c].rounds \in Nat
           /\ session'[c].rounds \in Nat
           /\ session[c].rounds <= session'[c].rounds
<1> DEFINE Grown == \/ session'[c].rounds = session[c].rounds
                    \/ session'[c].rounds = session[c].rounds + 1
                    \/ session[c].state = "none" /\ session'[c].rounds = 0
<1>1. session[c].rounds \in Nat
  BY LearningConstants DEF TypeOK, Sessions
<1>2. Grown
  <2>1. CASE Quiet
    BY <2>1 DEF Quiet, Same
  <2>2. ASSUME NEW d \in Captures,
               \/ Halts(d) \/ Reopens(d) \/ Wins(d)
               \/ \E s \in Sources : Opens(d, s)
               \/ \E state, verdict : Closes(d, state, verdict)
        PROVE  Grown
    <3>1. CASE c = d
      BY <2>2, <3>1 DEF Halts, Reopens, Wins, Opens, Closes
    <3>2. CASE c # d
      BY <2>2, <3>2 DEF Halts, Reopens, Wins, Opens, Closes, Changes, Alone, Same
    <3> QED
      BY <3>1, <3>2
  <2> QED
    BY <2>1, <2>2 DEF SessionStep
<1> QED
  BY <1>1, <1>2 DEF NothingBeforeStart

\* A settled call stays settled, and only an admission opens one.
LEMMA CallsKept ==
    ASSUME TypeOK, WorkerStep, NEW k \in Calls
    PROVE  /\ call[k] = "settled" => call'[k] = "settled"
           /\ \/ call'[k] \in Open => call[k] \in Open
              \/ \E w \in Workers, r \in Routes :
                    Admits(w, r) /\ k = <<run[w].capture, run[w].number, r>>
<1>1. CASE call' = call
  BY <1>1
<1>2. ASSUME NEW l \in Calls, Reconcile(l)
      PROVE  /\ call[k] = "settled" => call'[k] = "settled"
             /\ call'[k] \in Open => call[k] \in Open
  BY <1>2 DEF Reconcile, TypeOK, Open
<1>3. ASSUME NEW w \in Workers, NEW r \in Routes, Admits(w, r)
      PROVE  /\ call[k] = "settled" => call'[k] = "settled"
             /\ \/ call'[k] \in Open => call[k] \in Open
                \/ k = <<run[w].capture, run[w].number, r>>
  BY <1>3 DEF Admits, TypeOK, Open
<1>4. ASSUME NEW w \in Workers, NEW state \in {"settled", "unknown"}, Decides(w, state)
      PROVE  /\ call[k] = "settled" => call'[k] = "settled"
             /\ call'[k] \in Open => call[k] \in Open
  BY <1>4 DEF Decides, TypeOK, Open
<1> QED
  BY <1>1, <1>2, <1>3, <1>4 DEF WorkerStep, Rests, Tries, Takes

----------------------------------------------------------------------------
\* The rest of the invariant.

LEMMA CandidateStep ==
    ASSUME TypeOK, FencedAttempts, CandidateIsAccounted, WorkersKnow, SessionStep, WorkerStep
    PROVE  CandidateIsAccounted'
<1> SUFFICES ASSUME NEW c \in Captures, NEW n \in 1 .. MaxRounds,
                    attempt'[<<c, n>>] = "candidate"
             PROVE  /\ session'[c].state = "awaiting_validation" /\ session'[c].rounds = n
                    /\ \E r \in Routes : call'[<<c, n, r>>] = "settled"
  BY DEF CandidateIsAccounted
<1>1. <<c, n>> \in Attempts /\ \A r \in Routes : <<c, n, r>> \in Calls
  BY DEF Attempts, Calls
<1>2. \A r \in Routes : call[<<c, n, r>>] = "settled" => call'[<<c, n, r>>] = "settled"
  BY <1>1, CallsKept
<1>3. CASE attempt[<<c, n>>] = "candidate"
  <2>1. /\ session[c].state = "awaiting_validation" /\ session[c].rounds = n
        /\ \E r \in Routes : call[<<c, n, r>>] = "settled"
    BY <1>3 DEF CandidateIsAccounted
  <2>2. Same(c)
    BY <2>1 DEF SessionStep, Quiet, Halts, Reopens, Wins, Opens, Closes, Changes, Alone, Active
  <2> QED
    BY <1>2, <2>1, <2>2 DEF Same
<1>4. CASE attempt[<<c, n>>] # "candidate"
  <2>1. Closes(c, "awaiting_validation", "candidate") /\ n = session[c].rounds
    BY <1>1, <1>4 DEF SessionStep, Quiet, Halts, Reopens, Wins, Opens, Closes
  <2>2. PICK w \in Workers : pc[w] = "finishing" /\ run[w].capture = c /\ run[w].number = n
    BY <2>1 DEF Closes
  <2>3. \E r \in Routes : call[<<c, n, r>>] = "settled"
    BY <2>2 DEF WorkersKnow
  <2> QED
    BY <1>2, <2>1, <2>3 DEF Closes, Changes
<1> QED
  BY <1>3, <1>4

\* What WorkersKnow says of one worker.
Knows(w) ==
    /\ pc[w] # "idle" => run[w].capture \in Captures
    /\ pc[w] \in Acting => /\ run[w].number \in 1 .. MaxRounds
                           /\ run[w].number <= session[run[w].capture].rounds
    /\ pc[w] \in Acting => (pc[w] = "calling" <=> run[w].route # None)
    /\ pc[w] \in {"parsing", "finishing"} =>
          \E r \in Routes : call[<<run[w].capture, run[w].number, r>>] = "settled"

\* A worker that is still at its attempt keeps what it knows of it.
LEMMA StillKnows ==
    ASSUME TypeOK, NothingBeforeStart, SessionStep, WorkerStep,
           NEW w \in Workers, Knows(w), Holds(w), pc[w] \in Acting
    PROVE  /\ run'[w].capture \in Captures
           /\ run'[w].number \in 1 .. MaxRounds
           /\ run'[w].number <= session'[run'[w].capture].rounds
           /\ \A r \in Routes :
                 call[<<run[w].capture, run[w].number, r>>] = "settled" =>
                     call'[<<run'[w].capture, run'[w].number, r>>] = "settled"
<1> DEFINE c == run[w].capture
           n == run[w].number
<1>1. c \in Captures /\ n \in 1 .. MaxRounds /\ n <= session[c].rounds
  BY DEF Knows, Acting
<1>2. n <= session'[c].rounds
  BY <1>1, RoundsGrow
<1>3. \A r \in Routes : call[<<c, n, r>>] = "settled" => call'[<<c, n, r>>] = "settled"
  BY <1>1, CallsKept DEF Calls
<1> QED
  BY <1>1, <1>2, <1>3 DEF Holds

LEMMA KnowStep ==
    ASSUME TypeOK, NothingBeforeStart, WorkersKnow, SessionStep, WorkerStep
    PROVE  WorkersKnow'
<1>1. \A w \in Workers : Knows(w)
  BY DEF WorkersKnow, Knows
<1> SUFFICES ASSUME NEW w \in Workers PROVE Knows(w)'
  BY DEF WorkersKnow, Knows
<1>2. CASE Calm(w)
  <2>1. CASE pc[w] \in Acting
    <3>1. Holds(w)
      BY <1>2 DEF Calm, Holds
    <3> QED
      BY <1>1, <1>2, <2>1, <3>1, StillKnows DEF Calm, Knows
  <2>2. CASE pc[w] \notin Acting
    BY <1>1, <1>2, <2>2 DEF Calm, Knows, Acting
  <2> QED
    BY <2>1, <2>2
<1>3. CASE Rests(w)
  BY <1>3 DEF Rests, Knows, Acting
<1>4. CASE Tries(w)
  <2>1. Holds(w) /\ pc[w] \in Acting
    BY <1>4 DEF Tries, Holds, Acting
  <2> QED
    BY <1>1, <1>4, <2>1, StillKnows DEF Tries, Knows, Acting
<1>5. CASE Takes(w)
  <2> DEFINE c == run'[w].capture
  <2>1. session[c].rounds \in Nat /\ session[c].rounds < MaxRounds
        /\ session'[c].rounds = session[c].rounds + 1
    BY <1>5, RoundsGrow DEF Takes, Wins
  <2> QED
    BY <1>5, <2>1, LearningConstants DEF Takes, Knows, Acting
<1>6. ASSUME NEW r \in Routes, Admits(w, r) PROVE Knows(w)'
  <2>1. Holds(w) /\ pc[w] \in Acting
    BY <1>6 DEF Admits, Acting
  <2> QED
    BY <1>1, <1>6, <2>1, StillKnows, LearningConstants DEF Admits, Knows, Acting
<1>7. ASSUME NEW state \in {"settled", "unknown"}, Decides(w, state) PROVE Knows(w)'
  <2>1. Holds(w) /\ pc[w] \in Acting
    BY <1>7 DEF Decides, Acting
  <2>2. run[w].route \in Routes /\ run[w].capture \in Captures /\ run[w].number \in 1 .. MaxRounds
    BY <1>1, <1>7 DEF Decides, Knows, Acting, TypeOK, Runs
  <2>3. state = "settled" => call'[<<run'[w].capture, run'[w].number, run[w].route>>] = "settled"
    BY <1>7, <2>1, <2>2 DEF Decides, Holds, TypeOK, Calls
  <2> QED
    BY <1>1, <1>7, <2>1, <2>2, <2>3, StillKnows DEF Decides, Knows, Acting
<1> QED
  BY <1>2, <1>3, <1>4, <1>5, <1>6, <1>7 DEF WorkerStep, AllCalm, Others

\* Who is at an attempt after a step was there before, or has just claimed it.
LEMMA StaysOrTakes ==
    ASSUME WorkerStep, NEW w \in Workers, pc'[w] \in Acting
    PROVE  (pc[w] \in Acting /\ Holds(w)) \/ (Takes(w) /\ Others(w))
BY ZenonT(60) DEF WorkerStep, AllCalm, Others, Calm, Rests, Tries, Takes, Admits, Decides, Holds, Acting

LEMMA OneWorkerStep ==
    ASSUME TypeOK, NothingBeforeStart, WorkersKnow, OneWorkerPerAttempt, SessionStep, WorkerStep
    PROVE  OneWorkerPerAttempt'
<1> SUFFICES ASSUME NEW v \in Workers, NEW w \in Workers,
                    pc'[v] \in Acting, pc'[w] \in Acting,
                    run'[v].capture = run'[w].capture, run'[v].number = run'[w].number, v # w
             PROVE  FALSE
  BY DEF OneWorkerPerAttempt
<1>1. \A x, y \in Workers :
        ~(/\ Takes(x) /\ Others(x) /\ x # y /\ pc'[y] \in Acting
          /\ run'[x].capture = run'[y].capture /\ run'[x].number = run'[y].number)
  <2> SUFFICES ASSUME NEW x \in Workers, NEW y \in Workers,
                      Takes(x), Others(x), x # y, pc'[y] \in Acting,
                      run'[x].capture = run'[y].capture, run'[x].number = run'[y].number
               PROVE  FALSE
    OBVIOUS
  <2>1. pc[y] \in Acting /\ run'[y] = run[y]
    BY DEF Others, Calm
  <2>2. run[y].capture \in Captures /\ run[y].number \in Nat
        /\ run[y].number <= session[run[y].capture].rounds
    BY <2>1, LearningConstants DEF WorkersKnow, Acting
  <2>3. session[run[y].capture].rounds \in Nat
    BY <2>2, RoundsGrow
  <2>4. run[y].number = session[run[y].capture].rounds + 1
    BY <2>1 DEF Takes
  <2> QED
    BY <2>2, <2>3, <2>4
<1>2. pc[v] \in Acting /\ Holds(v) /\ pc[w] \in Acting /\ Holds(w)
  BY <1>1, StaysOrTakes
<1> QED
  BY <1>2 DEF Holds, OneWorkerPerAttempt

\* Before an admission nothing is open.
LEMMA NothingOpen ==
    ASSUME WorkersKnow, OpenCallIsMine, NEW w \in Workers, NEW r \in Routes, Admits(w, r)
    PROVE  OpenCalls = {}
<1>1. pc[w] \in Acting /\ run[w].route = None
  BY DEF Admits, WorkersKnow, Acting
<1>2. OpenCalls \subseteq {<<run[w].capture, run[w].number, None>>}
  BY <1>1 DEF Admits, OpenCallIsMine
<1>3. \A k \in OpenCalls : k[3] \in Routes
  BY DEF OpenCalls, Calls
<1> QED
  BY <1>2, <1>3, LearningConstants

LEMMA OpenStep ==
    ASSUME TypeOK, WorkersKnow, OpenCallIsMine, WorkerStep
    PROVE  \/ OpenCalls' \subseteq OpenCalls
           \/ \E w \in Workers, r \in Routes :
                 /\ Others(w) /\ UNCHANGED <<session, attempt>> /\ Admits(w, r)
                 /\ OpenCalls' \subseteq {<<run[w].capture, run[w].number, r>>}
<1>1. CASE \E w \in Workers, r \in Routes :
              Others(w) /\ UNCHANGED <<session, attempt>> /\ Admits(w, r)
  <2>1. PICK w \in Workers, r \in Routes :
           Others(w) /\ UNCHANGED <<session, attempt>> /\ Admits(w, r)
    BY <1>1
  <2>2. OpenCalls = {}
    BY <2>1, NothingOpen
  <2>3. OpenCalls' \subseteq {<<run[w].capture, run[w].number, r>>}
    BY <2>1, <2>2 DEF Admits, OpenCalls, TypeOK
  <2> QED
    BY <2>1, <2>3
<1>2. CASE call' = call
  BY <1>2 DEF OpenCalls
<1>3. ASSUME NEW k \in Calls, Reconcile(k) PROVE OpenCalls' \subseteq OpenCalls
  BY <1>3 DEF Reconcile, OpenCalls, TypeOK, Open
<1>4. ASSUME NEW w \in Workers, NEW state \in {"settled", "unknown"}, Decides(w, state)
      PROVE  OpenCalls' \subseteq OpenCalls
  BY <1>4 DEF Decides, OpenCalls, TypeOK, Open
<1> QED
  BY <1>1, <1>2, <1>3, <1>4 DEF WorkerStep, Rests, Tries, Takes

LEMMA OneOpenStep ==
    ASSUME TypeOK, WorkersKnow, OneOpenCall, OpenCallIsMine, WorkerStep
    PROVE  OneOpenCall'
<1>1. CASE OpenCalls' \subseteq OpenCalls
  BY <1>1 DEF OneOpenCall
<1>2. ASSUME NEW k, OpenCalls' \subseteq {k} PROVE OneOpenCall'
  BY <1>2 DEF OneOpenCall
<1> QED
  BY <1>1, <1>2, OpenStep

\* An attempt that was claimed before the step is current after it only if it
\* was before.
LEMMA CurrentBefore ==
    ASSUME FencedAttempts, SessionStep, NEW c \in Captures, NEW n \in 1 .. MaxRounds,
           session[c].rounds \in Nat, n <= session[c].rounds, Current(c, n)'
    PROVE  Current(c, n)
<1>1. session'[c].state = "running" /\ n = session'[c].rounds
  BY DEF Current
<1>2. session[c].state = "running" /\ n = session[c].rounds
  <2>1. Same(c) \/ Wins(c)
    BY <1>1 DEF SessionStep, Quiet, Halts, Reopens, Wins, Opens, Closes, Changes, Alone, Stopped
  <2> QED
    BY <1>1, <2>1 DEF Same, Wins
<1>3. <<c, n>> \in Attempts
  BY DEF Attempts
<1> QED
  BY <1>2, <1>3 DEF Current, FencedAttempts

LEMMA MineStep ==
    ASSUME TypeOK, FencedAttempts, OneRunning, WorkersKnow, OneWorkerPerAttempt, OpenCallIsMine,
           NothingBeforeStart, SessionStep, WorkerStep
    PROVE  OpenCallIsMine'
<1> SUFFICES ASSUME NEW w \in Workers, pc'[w] \in Acting,
                    Current(run[w].capture, run[w].number)'
             PROVE  OpenCalls' \subseteq {<<run'[w].capture, run'[w].number, run'[w].route>>}
  BY DEF OpenCallIsMine
<1> DEFINE c == run[w].capture
           n == run[w].number
<1>1. CASE Takes(w)
  BY <1>1 DEF Takes, Wins, Free, OpenCalls
<1>2. CASE pc[w] \in Acting /\ Holds(w)
  <2>1. c \in Captures /\ n \in 1 .. MaxRounds /\ n <= session[c].rounds
    BY <1>2 DEF WorkersKnow, Acting
  <2>2. Current(c, n)
    <3>1. session[c].rounds \in Nat
      BY <2>1, RoundsGrow
    <3>2. c' = c /\ n' = n
      BY <1>2 DEF Holds
    <3>3. /\ session'[c].state = "running" /\ n = session'[c].rounds
          /\ attempt'[<<c, n>>] = "calling"
      BY <3>2 DEF Current
    <3> QED
      BY <2>1, <3>1, <3>3, CurrentBefore DEF Current
  <2>3. OpenCalls \subseteq {<<c, n, run[w].route>>}
    BY <1>2, <2>2 DEF OpenCallIsMine
  <2>4. ASSUME run'[w] = run[w], OpenCalls' \subseteq OpenCalls
        PROVE  OpenCalls' \subseteq {<<run'[w].capture, run'[w].number, run'[w].route>>}
    BY <2>3, <2>4
  <2>5. ASSUME NEW v \in Workers, NEW r \in Routes, Others(v), Admits(v, r),
               OpenCalls' \subseteq {<<run[v].capture, run[v].number, r>>}
        PROVE  OpenCalls' \subseteq {<<run'[w].capture, run'[w].number, run'[w].route>>}
    <3>1. pc[v] \in Acting /\ Current(run[v].capture, run[v].number)
      BY <2>5 DEF Admits, Acting
    <3>2. run[v].capture \in Captures
      BY <3>1 DEF WorkersKnow, Acting
    <3>3. run[v].capture = c /\ run[v].number = n
      BY <2>1, <2>2, <3>1, <3>2 DEF Current, OneRunning
    <3>4. v = w
      BY <1>2, <3>1, <3>3 DEF OneWorkerPerAttempt
    <3>5. run'[w].route = r
      BY <2>5, <3>4 DEF Admits, Acting
    <3> QED
      BY <1>2, <2>5, <3>4, <3>5 DEF Holds
  <2>6. ASSUME NEW state \in {"settled", "unknown"}, Decides(w, state)
        PROVE  OpenCalls' = {}
    <3>1. state = "settled"
      BY <2>6 DEF Decides, Acting
    <3>2. call' = [call EXCEPT ![<<c, n, run[w].route>>] = "settled"]
      BY <2>6, <3>1 DEF Decides
    <3> QED
      BY <2>3, <3>2 DEF OpenCalls, Open, TypeOK
  <2>7. OpenCalls' \subseteq OpenCalls \/ \E v \in Workers, r \in Routes :
           /\ Others(v) /\ Admits(v, r)
           /\ OpenCalls' \subseteq {<<run[v].capture, run[v].number, r>>}
    BY OpenStep
  <2>8. CASE OpenCalls' \subseteq OpenCalls
    <3>1. CASE run'[w] = run[w]
      BY <2>4, <2>8, <3>1
    <3>2. ASSUME NEW r \in Routes, Admits(w, r)
          PROVE  OpenCalls' \subseteq {<<run'[w].capture, run'[w].number, run'[w].route>>}
      <4>1. OpenCalls = {}
        BY <3>2, NothingOpen
      <4> QED
        BY <2>8, <4>1
    <3> QED
      BY <1>1, <2>6, <3>1, <3>2 DEF WorkerStep, AllCalm, Others, Calm, Rests, Tries
  <2> QED
    BY <2>5, <2>7, <2>8
<1> QED
  BY <1>1, <1>2, StaysOrTakes

\* Only a session at work is charged.
LEMMA NoAdmission == ASSUME TypeOK, WorkerStep PROVE AdmitsNothing
<1> SUFFICES ASSUME NEW k \in Calls, session[k[1]].state \notin Active, call[k] = "none"
             PROVE  call'[k] = "none"
  BY DEF AdmitsNothing
<1>2. CASE call' = call
  BY <1>2
<1>3. ASSUME NEW l \in Calls, Reconcile(l) PROVE call'[k] = "none"
  BY <1>3 DEF Reconcile, TypeOK, Open
<1>4. ASSUME NEW w \in Workers, NEW r \in Routes, Admits(w, r) PROVE call'[k] = "none"
  <2>1. k # <<run[w].capture, run[w].number, r>>
    BY <1>4 DEF Admits, Current, Active
  <2> QED
    BY <1>4, <2>1 DEF Admits, TypeOK
<1>5. ASSUME NEW w \in Workers, NEW state \in {"settled", "unknown"}, Decides(w, state)
      PROVE  call'[k] = "none"
  BY <1>5 DEF Decides, TypeOK
<1> QED
  BY <1>2, <1>3, <1>4, <1>5 DEF WorkerStep, Rests, Tries, Takes

LEMMA NotPaidStep ==
    ASSUME TypeOK, NotPaidBeforeStart, SessionStep, WorkerStep
    PROVE  NotPaidBeforeStart'
<1> SUFFICES ASSUME NEW c \in Captures, Paid(c)' PROVE session'[c].state # "none"
  BY DEF NotPaidBeforeStart
<1>1. PICK k \in Calls : k[1] = c /\ call'[k] # "none"
  BY DEF Paid
<1>2. session[c].state # "none"
  <2>1. CASE call[k] = "none"
    BY <1>1, <2>1, NoAdmission DEF AdmitsNothing, Active
  <2>2. CASE call[k] # "none"
    BY <1>1, <2>2 DEF NotPaidBeforeStart, Paid
  <2> QED
    BY <2>1, <2>2
<1> QED
  BY <1>2 DEF SessionStep, Quiet, Halts, Reopens, Opens, Wins, Closes, Changes, Alone, Same, Stopped

----------------------------------------------------------------------------
\* The theorems.

LEMMA InitIInv == Init => IInv
<1> SUFFICES ASSUME Init PROVE IInv
  OBVIOUS
<1>1. TypeOK
  <2>1. NoSession \in Sessions
    BY Limits, SMT DEF NoSession, Sessions, SessionStates
  <2> QED
    BY <2>1, NoRunType DEF Init, TypeOK, AttemptStates, CallStates, Steps
<1>2. FencedAttempts /\ CandidateIsAccounted /\ NothingBeforeStart /\ NotPaidBeforeStart
  BY DEF Init, NoSession, Attempts, FencedAttempts, CandidateIsAccounted, NothingBeforeStart,
         NotPaidBeforeStart, Paid
<1>3. OneActivePerSource /\ OneRunning
  BY DEF Init, NoSession, OneActivePerSource, OneRunning, Active
<1>4. OneOpenCall
  BY DEF Init, OpenCalls, Open, OneOpenCall
<1>5. WorkersKnow /\ OneWorkerPerAttempt /\ OpenCallIsMine
  BY DEF Init, WorkersKnow, OneWorkerPerAttempt, OpenCallIsMine, Acting
<1> QED
  BY <1>1, <1>2, <1>3, <1>4, <1>5 DEF IInv

LEMMA IInvStep == IInv /\ [Next]_vars => IInv'
<1> SUFFICES ASSUME IInv, [Next]_vars PROVE IInv'
  OBVIOUS
<1>1. SessionStep /\ WorkerStep /\ TypeOK'
  BY SessionSteps, WorkerSteps, TypeStep DEF IInv
<1>2. FencedAttempts' /\ NothingBeforeStart' /\ OneActivePerSource' /\ OneRunning'
  BY <1>1, FencedStep, ActiveStep DEF IInv
<1>3. CandidateIsAccounted' /\ WorkersKnow' /\ OneWorkerPerAttempt'
  BY <1>1, CandidateStep, KnowStep, OneWorkerStep DEF IInv
<1>4. OneOpenCall' /\ OpenCallIsMine' /\ NotPaidBeforeStart'
  BY <1>1, OneOpenStep, MineStep, NotPaidStep DEF IInv
<1> QED
  BY <1>1, <1>2, <1>3, <1>4 DEF IInv

\* IInv is an inductive invariant of the learning sessions.
THEOREM Invariant == Spec => []IInv
BY InitIInv, IInvStep, PTL DEF Spec

\* The variables keep their types.
THEOREM TypeCorrect == Spec => []TypeOK
BY Invariant, PTL DEF IInv

\* An attempt is calling exactly while it is the newest of a running session.
THEOREM Fenced == Spec => []FencedAttempts
BY Invariant, PTL DEF IInv

\* No source has two sessions at work, and one session runs at a time.
THEOREM OneAtWork == Spec => [](OneActivePerSource /\ OneRunning)
BY Invariant, PTL DEF IInv

\* At most one learning call is unaccounted for.
THEOREM OneOpen == Spec => []OneOpenCall
BY Invariant, PTL DEF IInv

\* A source has one session at work, and all of them one call in flight.
THEOREM OneAfterTheOther == Spec => []OneByOne
BY OneAtWork, OneOpen, PTL DEF OneByOne

\* A candidate comes from the last round and from a settled call.
THEOREM CandidateAccounted == Spec => []CandidateIsAccounted
BY Invariant, PTL DEF IInv

LEMMA AdmitsNothingStep == IInv /\ [Next]_vars => [AdmitsNothing]_vars
BY WorkerSteps, NoAdmission DEF IInv

\* A session that has ended admits no call.
THEOREM AdmitsNothingAfterEnd == Spec => EndedAdmitsNothing
BY AdmitsNothingStep, Invariant, PTL DEF Spec, EndedAdmitsNothing

LEMMA KeepsPaidStep == IInv /\ [Next]_vars => [KeepsPaid]_vars
<1> SUFFICES ASSUME IInv, [Next]_vars, NEW c \in Captures,
                    session[c].state \notin Active, Paid(c), session[c].state # "none"
             PROVE  session'[c].state = session[c].state
  BY DEF KeepsPaid, IInv, NotPaidBeforeStart
<1>1. SessionStep
  BY SessionSteps DEF IInv
<1> QED
  BY <1>1 DEF SessionStep, Quiet, Halts, Reopens, Opens, Wins, Closes, Changes, Alone, Same, Active

\* A session that has ended and has paid stays as it ended.
THEOREM PaidStays == Spec => PaidStaysEnded
BY KeepsPaidStep, Invariant, PTL DEF Spec, PaidStaysEnded

----------------------------------------------------------------------------
\* The recorded history.

\* The rounds of a session have their attempts, and no other round has one.
AttemptsTracked ==
    \A a \in Attempts : attempt[a] # "none" <=> a[2] <= session[a[1]].rounds

HistoryKept ==
    /\ AttemptsTracked
    /\ \A c \in Captures : RetriesTracked(c)

LEMMA TrackedStep ==
    ASSUME TypeOK, FencedAttempts, NothingBeforeStart, AttemptsTracked, SessionStep
    PROVE  AttemptsTracked'
<1>0. \A c \in Captures : session[c].rounds \in Nat
  BY LearningConstants DEF TypeOK, Sessions
<1>1. CASE Quiet
  BY <1>1 DEF Quiet, Same, AttemptsTracked, Attempts
<1>2. ASSUME NEW c \in Captures, Halts(c) PROVE AttemptsTracked'
  BY <1>2 DEF Halts, Changes, Alone, Same, AttemptsTracked, Attempts
<1>3. ASSUME NEW c \in Captures, Reopens(c) \/ \E s \in Sources : Opens(c, s)
      PROVE  AttemptsTracked'
  BY <1>3 DEF Reopens, Opens, Changes, Alone, Same, AttemptsTracked, NothingBeforeStart, Attempts
<1>4. ASSUME NEW c \in Captures, Wins(c) PROVE AttemptsTracked'
  <2> SUFFICES ASSUME NEW a \in Attempts
               PROVE  attempt'[a] # "none" <=> a[2] <= session'[a[1]].rounds
    BY DEF AttemptsTracked
  <2>1. a[1] \in Captures /\ a[2] \in Nat /\ a = <<a[1], a[2]>>
    BY DEF Attempts
  <2>2. attempt[a] # "none" <=> a[2] <= session[a[1]].rounds
    BY DEF AttemptsTracked
  <2>3. CASE a[1] # c
    BY <1>4, <2>1, <2>2, <2>3 DEF Wins, Changes, Alone, Same
  <2>4. CASE a[1] = c
    <3>1. session'[c].rounds = session[c].rounds + 1
      BY <1>4 DEF Wins
    <3>2. attempt'[a] = IF a[2] = session[c].rounds + 1 THEN "calling" ELSE attempt[a]
      BY <1>4, <2>1, <2>4 DEF Wins
    <3> QED
      BY <1>0, <2>1, <2>2, <2>4, <3>1, <3>2
  <2> QED
    BY <2>3, <2>4
<1>5. ASSUME NEW c \in Captures, NEW state, NEW verdict \in {"rejected", "candidate"},
             Closes(c, state, verdict)
      PROVE  AttemptsTracked'
  <2>1. \A d \in Captures : session'[d].rounds = session[d].rounds
    BY <1>5 DEF Closes, Changes, Alone, Same
  <2>2. \A a \in Attempts : a = <<c, session[c].rounds>> => attempt[a] # "none" /\ attempt'[a] # "none"
    BY <1>5 DEF Closes, Changes, FencedAttempts
  <2>3. \A a \in Attempts : attempt'[a] # "none" <=> attempt[a] # "none"
    BY <1>5, <2>2 DEF Closes
  <2> QED
    BY <2>1, <2>3 DEF AttemptsTracked, Attempts
<1> QED
  BY <1>1, <1>2, <1>3, <1>4, <1>5 DEF SessionStep

Records(c) == session'[c].retries = session[c].retries /\ session'[c].retried = session[c].retried

LEMMA RowRecords ==
    ASSUME TypeOK, NEW d, NEW r, session' = [session EXCEPT ![d] = r],
           r.retries = session[d].retries, r.retried = session[d].retried, NEW c \in Captures
    PROVE  Records(c)
BY DEF TypeOK, Records

\* Only a start and a retry write what is recorded of retries.
LEMMA RecordSteps ==
    ASSUME TypeOK, WorkersKnow, [Next]_vars, NEW c \in Captures
    PROVE  Records(c) \/ Retry(c) \/ \E s \in Sources : Start(c, s)
<1>0. \A d \in Captures : session[d] \in Sessions
  BY DEF TypeOK
<1>1. session' = session => Records(c)
  BY DEF Records
<1>2. ASSUME NEW d \in Captures, NEW state, End(d, state) PROVE Records(c)
  <2>1. PICK r : /\ r = [session[d] EXCEPT !.state = state, !.cooldown = Cooldown]
                 /\ session' = [session EXCEPT ![d] = r]
    BY <1>2 DEF End
  <2>2. r.retries = session[d].retries /\ r.retried = session[d].retried
    BY <1>0, <2>1 DEF Sessions
  <2> QED
    BY <2>1, <2>2, RowRecords
<1>3. ASSUME NEW d \in Captures, Admin(d)
      PROVE  Records(c) \/ Retry(c) \/ \E s \in Sources : Start(c, s)
  <2>1. CASE d = c
    BY <1>2, <1>3, <2>1 DEF Admin, Cancel, Stop
  <2>2. CASE d # c
    <3>1. ASSUME NEW s \in Sources, Start(d, s) PROVE Records(c)
      BY <2>2, <3>1 DEF Start, TypeOK, Records
    <3>2. ASSUME Retry(d) PROVE Records(c)
      BY <2>2, <3>2 DEF Retry, TypeOK, Records
    <3> QED
      BY <1>2, <1>3, <3>1, <3>2 DEF Admin, Cancel, Stop
  <2> QED
    BY <2>1, <2>2
<1>4. ASSUME NEW d \in Captures, Publish(d) \/ Recover(d) PROVE Records(c)
  <2>1. CASE session' = [session EXCEPT ![d].due = Spacing]
    <3>1. PICK r : /\ r = [session[d] EXCEPT !.due = Spacing]
                   /\ session' = [session EXCEPT ![d] = r]
      BY <2>1
    <3>2. r.retries = session[d].retries /\ r.retried = session[d].retried
      BY <1>0, <3>1 DEF Sessions
    <3> QED
      BY <3>1, <3>2, RowRecords
  <2> QED
    BY <1>2, <1>4, <2>1 DEF Publish, Recover, Stop
<1>5. ASSUME NEW w \in Workers, Learn(w) PROVE Records(c)
  <2> DEFINE d == run[w].capture
  <2>1. pc[w] # "idle" => d \in Captures
    BY DEF WorkersKnow
  <2>2. ASSUME ClaimStops(w) \/ Parse(w) \/ FinishLate(w) \/ FinishExhausted(w) \/ Block(w)
        PROVE  Records(c)
    <3>1. d \in Captures
      BY <2>1, <2>2 DEF ClaimStops, Parse, FinishLate, FinishExhausted, Finishing, Block
    <3>2. session' = session \/ End(d, "blocked") \/ End(d, "exhausted")
      BY <2>2 DEF ClaimStops, Parse, FinishLate, FinishExhausted, Block, Stop
    <3> HIDE DEF d
    <3> QED
      BY <1>1, <1>2, <3>1, <3>2
  <2>3. CASE ClaimWins(w)
    <3>1. PICK r : /\ r = [session[d] EXCEPT !.rounds = session[d].rounds + 1, !.state = "running"]
                   /\ session' = [session EXCEPT ![d] = r]
      BY <2>3 DEF ClaimWins
    <3>2. session[d] \in Sessions
      BY <1>0, <2>1, <2>3 DEF ClaimWins
    <3>3. r.retries = session[d].retries /\ r.retried = session[d].retried
      BY <3>1, <3>2 DEF Sessions
    <3> QED
      BY <3>1, <3>3, RowRecords
  <2>4. CASE FinishReady(w)
    <3>1. PICK r : /\ r = [session[d] EXCEPT !.state = "awaiting_validation"]
                   /\ session' = [session EXCEPT ![d] = r]
      BY <2>4 DEF FinishReady
    <3>2. session[d] \in Sessions
      BY <1>0, <2>1, <2>4 DEF FinishReady, Finishing
    <3>3. r.retries = session[d].retries /\ r.retried = session[d].retried
      BY <3>1, <3>2 DEF Sessions
    <3> QED
      BY <3>1, <3>3, RowRecords
  <2>5. CASE FinishRejected(w)
    <3>1. PICK r : /\ r = [session[d] EXCEPT !.state = "queued", !.due = 0]
                   /\ session' = [session EXCEPT ![d] = r]
      BY <2>5 DEF FinishRejected
    <3>2. session[d] \in Sessions
      BY <1>0, <2>1, <2>5 DEF FinishRejected, Finishing
    <3>3. r.retries = session[d].retries /\ r.retried = session[d].retried
      BY <3>1, <3>2 DEF Sessions
    <3> QED
      BY <3>1, <3>3, RowRecords
  <2>6. ASSUME \/ \E m \in queue : Receive(w, m)
               \/ \E r \in Routes : Reserve(w, r)
               \/ ClaimRefused(w) \/ Settle(w) \/ Fails(w) \/ Crash(w)
        PROVE  session' = session
    BY <2>6 DEF Receive, Reserve, ClaimRefused, Settle, Fails, Crash
  <2> QED
    BY <1>1, <1>5, <2>2, <2>3, <2>4, <2>5, <2>6 DEF Learn
<1>6. CASE Tick
  <2>1. session'[c] = [session[c] EXCEPT !.due = Less(@), !.left = Less(@), !.cooldown = Less(@)]
    BY <1>6 DEF Tick
  <2> QED
    BY <1>0, <2>1 DEF Records, Sessions
<1> QED
  BY <1>1, <1>3, <1>4, <1>5, <1>6 DEF Next, vars, Reconcile, LoseMessage

\* A retry takes a round that was not taken before.
LEMMA RetryTracked ==
    ASSUME TypeOK, NEW c \in Captures, RetriesTracked(c), Retry(c)
    PROVE  RetriesTracked(c)'
<1> DEFINE old == session[c].retried
           r == session[c].rounds
<1>1. session[c] \in Sessions /\ old \subseteq Nat /\ r \in Nat /\ session[c].retries \in Nat
      /\ MaxRounds \in Nat
  BY LearningConstants DEF TypeOK, Sessions
<1>2. /\ session'[c].retries = session[c].retries + 1
      /\ session'[c].retried = old \cup {r}
      /\ session'[c].rounds = r
  <2>1. session'[c] = [session[c] EXCEPT !.state = "queued", !.due = 0,
                          !.retries = session[c].retries + 1, !.retried = old \cup {r}]
    BY DEF Retry, TypeOK
  <2> QED
    BY <1>1, <2>1 DEF Sessions
<1>3. r \notin old /\ r < MaxRounds
  BY DEF Retry, MayRetry
<1>4. \A n \in old \cup {r} : n <= r /\ n < MaxRounds
  BY <1>1, <1>3 DEF RetriesTracked
<1>5. MaxRounds - 1 \in Nat /\ \A n \in old \cup {r} : n <= MaxRounds - 1
  BY <1>1, <1>3, <1>4
<1>6. old \cup {r} \in SUBSET Nat
  BY <1>1
<1>7. IsFiniteSet(old \cup {r}) /\ Cardinality(old \cup {r}) <= MaxRounds
  <2>1. IsFiniteSet(old \cup {r}) /\ Cardinality(old \cup {r}) <= (MaxRounds - 1) + 1
    BY <1>5, <1>6, FS_BoundedSetOfNaturals
  <2> QED
    BY <1>1, <2>1
<1>8. IsFiniteSet(old)
  BY <1>7, FS_Subset
<1>9. Cardinality(old \cup {r}) = Cardinality(old) + 1
  BY <1>3, <1>8, FS_AddElement
<1>10. Cardinality(old) = session[c].retries
  BY DEF RetriesTracked
<1> QED
  BY <1>2, <1>4, <1>7, <1>9, <1>10 DEF RetriesTracked

LEMMA HistoryStep ==
    ASSUME IInv, HistoryKept, [Next]_vars
    PROVE  HistoryKept'
<1>1. TypeOK /\ FencedAttempts /\ NothingBeforeStart /\ WorkersKnow /\ SessionStep
  BY SessionSteps DEF IInv
<1>2. AttemptsTracked'
  BY <1>1, TrackedStep DEF HistoryKept
<1>3. ASSUME NEW c \in Captures PROVE RetriesTracked(c)'
  <2>1. RetriesTracked(c)
    BY DEF HistoryKept
  <2>2. CASE Retry(c)
    BY <1>1, <2>1, <2>2, RetryTracked
  <2>3. ASSUME NEW s \in Sources, Start(c, s) PROVE RetriesTracked(c)'
    <3>1. session'[c] = [NoSession EXCEPT !.source = s, !.state = "queued", !.left = TimeLimit]
      BY <1>1, <2>3 DEF Start, TypeOK
    <3>2. session'[c].retries = 0 /\ session'[c].retried = {}
      BY <3>1 DEF NoSession
    <3> QED
      BY <3>2, FS_EmptySet, LearningConstants DEF RetriesTracked
  <2>4. CASE Records(c)
    <3>1. session[c].rounds \in Nat /\ session[c].retried \subseteq Nat
      BY <1>1, LearningConstants DEF TypeOK, Sessions
    <3>2. session'[c].rounds \in Nat /\ session'[c].rounds >= session[c].rounds
      BY <1>1, <3>1, RoundsGrow
    <3>3. \A r \in session[c].retried : r <= session'[c].rounds
      BY <2>1, <3>1, <3>2 DEF RetriesTracked
    <3> QED
      BY <2>1, <2>4, <3>3 DEF RetriesTracked, Records
  <2> QED
    BY <1>1, <2>2, <2>3, <2>4, RecordSteps
<1> QED
  BY <1>2, <1>3 DEF HistoryKept

\* Learning never locks itself out: the records it writes pass the check that it
\* makes of them (_learning_history.inspect).
THEOREM HistoryPasses == Spec => []HistoryTracked
<1>1. Init => HistoryKept
  <2> SUFFICES ASSUME Init PROVE HistoryKept
    OBVIOUS
  <2>1. \A c \in Captures : session[c].rounds = 0 /\ session[c].retries = 0 /\ session[c].retried = {}
    BY DEF Init, NoSession
  <2>2. AttemptsTracked
    BY <2>1, LearningConstants DEF Init, Attempts, AttemptsTracked
  <2>3. \A c \in Captures : RetriesTracked(c)
    <3>1. Cardinality({}) = 0
      BY FS_EmptySet
    <3>2. \A c \in Captures : Cardinality(session[c].retried) = session[c].retries
      BY <2>1, <3>1, Zenon
    <3> QED
      BY <2>1, <3>2, LearningConstants DEF RetriesTracked
  <2> QED
    BY <2>2, <2>3 DEF HistoryKept
<1>2. IInv /\ HistoryKept => HistoryTracked
  <2> SUFFICES ASSUME IInv, HistoryKept, NEW c \in Captures PROVE RoundsTracked(c)
    BY DEF HistoryTracked, HistoryKept, Recorded
  <2>1. session[c].rounds \in 0 .. MaxRounds
    BY DEF IInv, TypeOK, Sessions
  <2> QED
    BY <2>1, LearningConstants DEF HistoryKept, AttemptsTracked, RoundsTracked, Attempts
<1> QED
  BY <1>1, <1>2, HistoryStep, Invariant, PTL DEF Spec
=============================================================================
