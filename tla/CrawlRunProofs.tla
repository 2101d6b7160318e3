--------------------------- MODULE CrawlRunProofs ---------------------------
(***************************************************************************)
(* Theorems about CrawlRun, for every value of its constants.  First the   *)
(* types, then the inductive invariant IInv and the safety properties it   *)
(* implies, then the refinement of CrawlLedger.                            *)
(***************************************************************************)
EXTENDS CrawlRun, TLAPS, SequenceTheorems

----------------------------------------------------------------------------
\* What the helpers return.

LEMMA LessType == \A n \in Nat : Less(n) \in Nat /\ Less(n) <= n
BY DEF Less

LEMMA DelaysType == \A kind \in Kinds : Delays(kind) \subseteq Nat
BY ConstantsAssumption DEF Delays, Kinds, FailureKinds

LEMMA ReasonType == \A kind \in Kinds : ReasonAfter(kind) \in Reasons
BY DEF ReasonAfter, Kinds, FailureKinds, Reasons

LEMMA FailuresType ==
    \A n \in Nat, kind \in Kinds : FailuresAfter(n, kind) \in Nat
BY DEF FailuresAfter

LEMMA AttentionType ==
    \A old \in {"none", "blocked", "extraction"}, n \in Nat, kind \in Kinds :
        AttentionSetBy(old, n, kind) \in {"none", "blocked", "extraction"}
BY DEF AttentionSetBy, Kinds, FailureKinds

LEMMA OutcomeType == \A kind \in Kinds : OutcomeOf(kind) \in {"success", "blocked", "failed"}
BY DEF OutcomeOf, Kinds, FailureKinds

LEMMA OutcomesAre == Outcomes = {"failed", "blocked", "stale", "lease_expired",
                                 "running", "success"}
BY DEF Outcomes, Failures

\* The log and its outcomes as functions on the same index set.
LEMMA LogShape ==
    ASSUME TypeOK
    PROVE  /\ Len(log) \in Nat
           /\ DOMAIN log = 1 .. Len(log)
           /\ DOMAIN outcome = 1 .. Len(log)
           /\ log \in [1 .. Len(log) -> LogRows]
           /\ outcome \in [1 .. Len(log) -> Outcomes]
<1>1. log \in Seq(LogRows) /\ outcome \in Seq(Outcomes) /\ Len(outcome) = Len(log)
  BY DEF TypeOK
<1> QED
  BY <1>1, LenProperties

\* ExpireOld is an outcome for each row of the log.
LEMMA ExpireType ==
    ASSUME TypeOK, NEW s \in Sources
    PROVE  /\ ExpireOld(s) \in Seq(Outcomes)
           /\ Len(ExpireOld(s)) = Len(log)
<1>1. ExpireOld(s) \in [1 .. Len(log) -> Outcomes]
  BY LogShape, OutcomesAre DEF ExpireOld
<1>2. ExpireOld(s) \in Seq(Outcomes)
  BY <1>1, LogShape, SeqDef
<1> QED
  BY <1>1, <1>2, LogShape, LenProperties

LEMMA SourceType ==
    ASSUME TypeOK, NEW w \in Workers, run[w].claim \in DOMAIN log
    PROVE  SourceOf(w) \in Sources
BY LogShape DEF SourceOf, LogRows

LEMMA SettledType ==
    ASSUME NEW row \in Rows, NEW kind \in Kinds, NEW d \in Delays(kind)
    PROVE  Settled(row, d, kind) \in Rows
<1> DEFINE n == FailuresAfter(row.failures, kind)
           a == AttentionSetBy(row.attention, n, kind)
           r == ReasonAfter(kind)
<1>1. d \in Nat /\ r \in Reasons
  BY DelaysType, ReasonType
<1>2. n \in Nat
  BY FailuresType DEF Rows
<1>3. a \in {"none", "blocked", "extraction"}
  BY <1>2, AttentionType DEF Rows
<1>4. Settled(row, d, kind) = [row EXCEPT !.due = d, !.reason = r, !.failures = n,
                                 !.attention = a, !.claim = NoClaim, !.lease = 0]
  BY DEF Settled, Rows
<1> HIDE DEF n, a, r
<1>5. [row EXCEPT !.due = d, !.reason = r, !.failures = n,
                  !.attention = a, !.claim = NoClaim, !.lease = 0] \in Rows
  BY <1>1, <1>2, <1>3, Zenon DEF Rows, NoClaim
<1> QED
  BY <1>4, <1>5, Zenon

\* Settle keeps the types of what it writes.
LEMMA SettleType ==
    ASSUME TypeOK, NEW w \in Workers, NEW kind \in Kinds,
           run[w].claim \in DOMAIN log, Settle(w, kind)
    PROVE  /\ state' \in [Sources -> Rows]
           /\ outcome' \in Seq(Outcomes)
           /\ Len(outcome') = Len(outcome)
<1> DEFINE s == SourceOf(w)
<1>1. s \in Sources /\ run[w].claim \in 1 .. Len(outcome)
  BY SourceType, LogShape DEF TypeOK
<1>2. state \in [Sources -> Rows]
  BY DEF TypeOK
<1>3. PICK d \in Delays(kind) : state' = [state EXCEPT ![s] = Settled(state[s], d, kind)]
  BY DEF Settle
<1>4. Settled(state[s], d, kind) \in Rows
  BY <1>1, <1>2, SettledType
<1>5. state' \in [Sources -> Rows]
  BY <1>2, <1>3, <1>4
<1>6. outcome' = [outcome EXCEPT ![run[w].claim] = OutcomeOf(kind)]
      /\ OutcomeOf(kind) \in Outcomes
  BY OutcomeType, OutcomesAre DEF Settle
<1> QED
  BY <1>1, <1>5, <1>6, ExceptSeq DEF TypeOK

----------------------------------------------------------------------------
\* Type correctness.

LEMMA NoRunType == NoRun \in Runs
BY Zenon DEF NoRun, Runs, Kinds, NoClaim

LEMMA FinishType ==
    ASSUME TypeOK, NEW w \in Workers, Finish(w)
    PROVE  pc' \in [Workers -> Steps] /\ run' \in [Workers -> Runs]
BY NoRunType DEF TypeOK, Finish, GoTo, Steps

\* An action that leaves the log, its outcomes, the stores and the queue alone.
LEMMA RowsAloneType ==
    ASSUME TypeOK, UNCHANGED <<log, outcome, store, queue>>,
           source' \in [Sources -> [active: BOOLEAN, rev: Nat]],
           profile' \in [Sources -> Profiles],
           state' \in [Sources -> Rows],
           pc' \in [Workers -> Steps],
           run' \in [Workers -> Runs]
    PROVE  TypeOK'
BY DEF TypeOK

\* RunsKnowTheirClaim says where the claim of a worker points to; the types of
\* what a worker writes depend on it.
LEMMA TypeStep ==
    ASSUME TypeOK, RunsKnowTheirClaim, [Next]_vars
    PROVE  TypeOK'
<1> USE ConstantsAssumption
<1>state. state \in [Sources -> Rows]
  BY DEF TypeOK
<1>run. run \in [Workers -> Runs] /\ pc \in [Workers -> Steps]
  BY DEF TypeOK
<1>1. CASE UNCHANGED vars
  BY <1>1 DEF TypeOK, vars
<1>2. ASSUME NEW s \in Sources, EnsureState(s) PROVE TypeOK'
  <2>1. PICK d \in Nat : state' = [state EXCEPT ![s] = [state[s] EXCEPT !.exists = TRUE, !.due = d]]
    BY <1>2 DEF EnsureState
  <2>2. [state[s] EXCEPT !.exists = TRUE, !.due = d] \in Rows
    BY <1>state, Zenon DEF Rows
  <2> QED
    BY <1>2, <1>state, <2>1, <2>2, RowsAloneType DEF EnsureState, TypeOK
<1>3. ASSUME NEW s \in Sources, NEW dueOnly \in BOOLEAN, Claim(s, dueOnly) PROVE TypeOK'
  <2> DEFINE row == [state[s] EXCEPT !.fence = state[s].fence + 1, !.claim = Len(log) + 1,
                                     !.reason = "claimed", !.lease = Lease]
             entry == [source |-> s, fence |-> state[s].fence + 1, gen |-> profile[s].gen]
  <2>1. Len(log) + 1 \in Nat /\ state[s].fence + 1 \in Nat /\ "claimed" \in Reasons
        /\ profile[s].gen \in Nat
    <3>1. state[s] \in Rows /\ profile[s] \in Profiles
      BY <1>state DEF TypeOK
    <3>2. state[s].fence \in Nat /\ profile[s].gen \in Nat
      BY <3>1 DEF Rows, Profiles
    <3> QED
      BY <3>2, LogShape DEF Reasons
  <2>2. row \in Rows
    BY <2>1, <1>state, Zenon DEF Rows
  <2>3. state' \in [Sources -> Rows]
    <3>1. state' = [state EXCEPT ![s] = row]
      BY <1>3 DEF Claim
    <3> HIDE DEF row
    <3> QED
      BY <1>state, <2>2, <3>1
  <2>4. entry \in LogRows
    BY <2>1 DEF LogRows
  <2>5. log' \in Seq(LogRows) /\ Len(log') = Len(log) + 1
    BY <1>3, <2>4, AppendProperties DEF Claim, TypeOK
  <2>6. outcome' \in Seq(Outcomes) /\ Len(outcome') = Len(log) + 1
    <3>1. ExpireOld(s) \in Seq(Outcomes) /\ Len(ExpireOld(s)) = Len(log)
      BY ExpireType
    <3> QED
      BY <1>3, <3>1, AppendProperties, OutcomesAre DEF Claim
  <2>7. queue' \subseteq DOMAIN log'
    <3>1. DOMAIN log' = 1 .. Len(log) + 1
      BY <2>5, LenProperties
    <3> QED
      BY <1>3, <3>1, LogShape DEF Claim, TypeOK
  <2> QED
    BY <1>3, <2>3, <2>5, <2>6, <2>7 DEF Claim, TypeOK
<1>4. ASSUME NEW c \in queue, LoseMessage(c) PROVE TypeOK'
  BY <1>4 DEF LoseMessage, TypeOK
<1>5. ASSUME NEW w \in Workers, NEW c \in queue, Start(w, c) PROVE TypeOK'
  <2>1. c \in 1 .. Len(log) /\ log[c] \in LogRows /\ c \in Nat
    BY LogShape DEF TypeOK
  <2>2. state[log[c].source] \in Rows
    BY <2>1, <1>state DEF LogRows
  <2>3. [NoRun EXCEPT !.claim = c, !.fence = state[log[c].source].fence, !.gen = log[c].gen]
          \in Runs
    BY <2>1, <2>2, NoRunType DEF Runs, Rows, LogRows
  <2>4. run' \in [Workers -> Runs] /\ pc' \in [Workers -> Steps]
    BY <1>5, <1>run, <2>3 DEF Start, GoTo, Steps
  <2>5. queue' \subseteq DOMAIN log
    BY <1>5 DEF Start, TypeOK
  <2> QED
    BY <1>5, <2>4, <2>5 DEF Start, TypeOK
<1>6. ASSUME NEW w \in Workers, Route(w) PROVE TypeOK'
  <2>1. pc' \in [Workers -> Steps]
    BY <1>6, <1>run DEF Route, GoTo, Steps
  <2>2. /\ [run[w] EXCEPT !.route = "legacy"] \in Runs
        /\ [run[w] EXCEPT !.route = "schema"] \in Runs
        /\ [run[w] EXCEPT !.route = "schema", !.kind = "blocked"] \in Runs
    BY <1>run DEF Runs, Kinds, FailureKinds
  <2>3. \/ run' = run
        \/ run' = [run EXCEPT ![w] = [run[w] EXCEPT !.route = "legacy"]]
        \/ run' = [run EXCEPT ![w] = [run[w] EXCEPT !.route = "schema"]]
        \/ run' = [run EXCEPT ![w] = [run[w] EXCEPT !.route = "schema", !.kind = "blocked"]]
    BY <1>6, <1>run DEF Route
  <2>4. run' \in [Workers -> Runs]
    BY <2>2, <2>3, <1>run
  <2> QED
    BY <1>6, <2>1, <2>4, RowsAloneType DEF Route, TypeOK
<1>7. ASSUME NEW w \in Workers, ReadSource(w) PROVE TypeOK'
  <2>1. CASE Finish(w)
    BY <1>7, <2>1, FinishType, RowsAloneType DEF ReadSource, TypeOK
  <2>2. CASE /\ pc[w] # "idle"
             /\ GoTo(w, "fetching")
             /\ run' = [run EXCEPT ![w].rev = source[SourceOf(w)].rev]
    <3>1. SourceOf(w) \in Sources
      BY <2>2, SourceType DEF RunsKnowTheirClaim
    <3>2. source[SourceOf(w)].rev \in Nat
      BY <3>1 DEF TypeOK
    <3>3. run' \in [Workers -> Runs] /\ pc' \in [Workers -> Steps]
      BY <1>run, <2>2, <3>2 DEF Runs, GoTo, Steps
    <3> QED
      BY <1>7, <3>3, RowsAloneType DEF ReadSource, TypeOK
  <2> QED
    BY <1>7, <2>1, <2>2 DEF ReadSource
<1>8. ASSUME NEW w \in Workers, NEW kind \in Kinds, Commit(w, kind) PROVE TypeOK'
  <2>1. run[w].claim \in DOMAIN log /\ run[w].claim \in Nat /\ SourceOf(w) \in Sources
    BY <1>8, SourceType, <1>run DEF Commit, RunsKnowTheirClaim, Runs
  <2>2. /\ state' \in [Sources -> Rows]
        /\ outcome' \in Seq(Outcomes)
        /\ Len(outcome') = Len(outcome)
    BY <1>8, <2>1, SettleType DEF Commit
  <2>3. store' \in [Sources -> Seq(Nat)]
    <3>1. Append(store[SourceOf(w)], run[w].claim) \in Seq(Nat)
      BY <2>1, AppendProperties DEF TypeOK
    <3> QED
      BY <1>8, <3>1 DEF Commit, TypeOK
  <2>4. pc' \in [Workers -> Steps] /\ run' \in [Workers -> Runs]
    BY <1>8, FinishType DEF Commit
  <2> QED
    BY <1>8, <2>2, <2>3, <2>4 DEF Commit, TypeOK
<1>9. ASSUME NEW w \in Workers, CommitRefused(w) PROVE TypeOK'
  <2>1. run' \in [Workers -> Runs] /\ pc' \in [Workers -> Steps]
    BY <1>9, <1>run DEF CommitRefused, GoTo, Steps, Runs, Kinds, FailureKinds
  <2> QED
    BY <1>9, <2>1, RowsAloneType DEF CommitRefused, TypeOK
<1>10. ASSUME NEW w \in Workers, NEW kind \in FailureKinds, Fails(w, kind) PROVE TypeOK'
  <2>1. run' \in [Workers -> Runs] /\ pc' \in [Workers -> Steps]
    BY <1>10, <1>run DEF Fails, GoTo, Steps, Runs, Kinds
  <2> QED
    BY <1>10, <2>1, RowsAloneType DEF Fails, TypeOK
<1>11. ASSUME NEW w \in Workers, Abandon(w) PROVE TypeOK'
  <2>1. CASE Holds(w) /\ Settle(w, run[w].kind) /\ Finish(w)
    <3>1. run[w].claim \in DOMAIN log /\ run[w].kind \in Kinds
      BY <1>11, <1>run DEF Abandon, RunsKnowTheirClaim, Runs
    <3>2. /\ state' \in [Sources -> Rows]
          /\ outcome' \in Seq(Outcomes)
          /\ Len(outcome') = Len(outcome)
      BY <2>1, <3>1, SettleType
    <3>3. pc' \in [Workers -> Steps] /\ run' \in [Workers -> Runs]
      BY <2>1, FinishType
    <3> QED
      BY <1>11, <3>2, <3>3 DEF Abandon, TypeOK
  <2>2. CASE GoTo(w, "stale") /\ UNCHANGED <<state, outcome, run>>
    BY <1>11, <2>2, <1>run DEF Abandon, TypeOK, GoTo, Steps
  <2> QED
    BY <1>11, <2>1, <2>2 DEF Abandon
<1>12. ASSUME NEW w \in Workers, MarkStale(w) PROVE TypeOK'
  <2>1. run[w].claim \in DOMAIN log /\ SourceOf(w) \in Sources
    BY <1>12, SourceType DEF MarkStale, RunsKnowTheirClaim
  <2>2. Released(state[SourceOf(w)]) \in Rows
    <3>1. state[SourceOf(w)] \in Rows
      BY <2>1, <1>state
    <3> QED
      BY <3>1, Zenon DEF Released, Rows, NoClaim
  <2>3. state' \in [Sources -> Rows]
    BY <1>12, <1>state, <2>1, <2>2 DEF MarkStale
  <2>4. outcome' \in Seq(Outcomes) /\ Len(outcome') = Len(outcome)
    <3>1. run[w].claim \in 1 .. Len(outcome) /\ outcome \in Seq(Outcomes) /\ "stale" \in Outcomes
      BY <2>1, LogShape, OutcomesAre DEF TypeOK
    <3>2. /\ [outcome EXCEPT ![run[w].claim] = "stale"] \in Seq(Outcomes)
          /\ Len([outcome EXCEPT ![run[w].claim] = "stale"]) = Len(outcome)
      BY <3>1, ExceptSeq
    <3> QED
      BY <1>12, <3>1, <3>2 DEF MarkStale
  <2>5. pc' \in [Workers -> Steps] /\ run' \in [Workers -> Runs]
    BY <1>12, FinishType DEF MarkStale
  <2> QED
    BY <1>12, <2>3, <2>4, <2>5 DEF MarkStale, TypeOK
<1>13. ASSUME NEW w \in Workers, Crash(w) PROVE TypeOK'
  BY <1>13, FinishType, RowsAloneType DEF Crash, TypeOK
<1>14. ASSUME NEW s \in Sources, NEW active \in BOOLEAN, NEW inputs \in BOOLEAN,
              EditSource(s, active, inputs) PROVE TypeOK'
  <2>1. source' \in [Sources -> [active: BOOLEAN, rev: Nat]]
    BY <1>14 DEF EditSource, TypeOK, Profiles
  <2>2. profile' \in [Sources -> Profiles]
    BY <1>14, ZenonT(60) DEF EditSource, TypeOK, Profiles
  <2> QED
    BY <1>14, <2>1, <2>2, RowsAloneType DEF EditSource, TypeOK
<1>15. ASSUME NEW s \in Sources, NEW granted \in BOOLEAN, SetPolicy(s, granted) PROVE TypeOK'
  <2>1. profile' \in [Sources -> Profiles]
    BY <1>15 DEF SetPolicy, TypeOK, Profiles
  <2> QED
    BY <1>15, <2>1, RowsAloneType DEF SetPolicy, TypeOK
<1>16. \A s \in Sources : DueNow(state[s], "activation") \in Rows
                         /\ DueNow(state[s], "manual") \in Rows
  BY <1>state, ZenonT(60) DEF DueNow, Rows, Reasons
<1>17. ASSUME NEW s \in Sources, Activate(s) PROVE TypeOK'
  <2>1. profile' \in [Sources -> Profiles]
    <3>1. profile[s] \in Profiles /\ profile[s].gen + 1 \in Nat
      BY DEF TypeOK, Profiles
    <3>2. [profile[s] EXCEPT !.gen = profile[s].gen + 1, !.schema = TRUE, !.bound = TRUE] \in Profiles
      BY <3>1, Zenon DEF Profiles
    <3> QED
      BY <1>17, <3>2 DEF Activate, TypeOK
  <2> QED
    BY <1>16, <1>17, <2>1, RowsAloneType DEF Activate, TypeOK
<1>18. ASSUME NEW s \in Sources, Retire(s) PROVE TypeOK'
  <2>1. profile' \in [Sources -> Profiles]
    <3>1. profile[s] \in Profiles /\ profile[s].gen + 1 \in Nat
      BY DEF TypeOK, Profiles
    <3>2. [profile[s] EXCEPT !.gen = profile[s].gen + 1, !.schema = FALSE, !.bound = FALSE] \in Profiles
      BY <3>1, Zenon DEF Profiles
    <3> QED
      BY <1>18, <3>2 DEF Retire, TypeOK
  <2> QED
    BY <1>18, <2>1, RowsAloneType DEF Retire, TypeOK
<1>19. ASSUME NEW s \in Sources, Reject(s) \/ RequestNow(s) PROVE TypeOK'
  BY <1>16, <1>19, RowsAloneType DEF Reject, RequestNow, TypeOK
<1>20. ASSUME NEW s \in Sources, NEW paused \in BOOLEAN, SetPaused(s, paused) PROVE TypeOK'
  <2>1. [state[s] EXCEPT !.exists = TRUE, !.paused = paused] \in Rows
    BY <1>state, Zenon DEF Rows
  <2> QED
    BY <1>20, <1>state, <2>1, RowsAloneType DEF SetPaused, TypeOK
<1>21. CASE Tick
  <2>1. \A s \in Sources : [state[s] EXCEPT !.due = Less(@), !.lease = Less(@)] \in Rows
    <3>1. ASSUME NEW s \in Sources
          PROVE [state[s] EXCEPT !.due = Less(@), !.lease = Less(@)] \in Rows
      <4>1. state[s] \in Rows /\ Less(state[s].due) \in Nat /\ Less(state[s].lease) \in Nat
        BY <1>state, LessType DEF Rows
      <4> QED
        BY <4>1, Zenon DEF Rows
    <3> QED
      BY <3>1
  <2>2. state' \in [Sources -> Rows]
    BY <1>21, <2>1 DEF Tick
  <2>3. \A w \in Workers : [run[w] EXCEPT !.ran = @ + 1] \in Runs
    BY <1>run DEF Runs
  <2>4. run' \in [Workers -> Runs]
    BY <1>21, <1>run, <2>3 DEF Tick
  <2> QED
    BY <1>21, <2>2, <2>4, RowsAloneType DEF Tick, TypeOK
<1> QED
  BY <1>1, <1>2, <1>3, <1>4, <1>5, <1>6, <1>7, <1>8, <1>9, <1>10, <1>11, <1>12, <1>13,
     <1>14, <1>15, <1>17, <1>18, <1>19, <1>20, <1>21
  DEF Next, Execute, Admin, DispatchDue, ManualClaim

----------------------------------------------------------------------------
\* The inductive invariant.

\* The parts of IInv that speak of runs, and not of workers or due times.
RunsInv ==
    /\ ClaimIsOpenRun
    /\ OneRunningLog
    /\ FencesGrow
    /\ StoreIsOfSuccesses
    /\ WritesInFenceOrder

\* They only depend on the ledger and on the claims and fences of the rows.
LEMMA RunsFrame ==
    ASSUME TypeOK, RunsInv, UNCHANGED <<log, outcome, store>>,
           \A s \in Sources : /\ state'[s].claim = state[s].claim
                              /\ state'[s].fence = state[s].fence
    PROVE  RunsInv'
<1>1. \A i \in DOMAIN log : log[i].source \in Sources
  BY LogShape DEF LogRows
<1>2. ClaimIsOpenRun'
  BY DEF RunsInv, ClaimIsOpenRun
<1>3. OneRunningLog'
  BY <1>1, LogShape DEF RunsInv, OneRunningLog
<1>4. FencesGrow'
  BY <1>1 DEF RunsInv, FencesGrow
<1>5. StoreIsOfSuccesses' /\ WritesInFenceOrder'
  BY DEF RunsInv, StoreIsOfSuccesses, WritesInFenceOrder
<1> QED
  BY <1>2, <1>3, <1>4, <1>5 DEF RunsInv

\* The claimed run of a source ends, and may write.
LEMMA RunEnds ==
    ASSUME TypeOK, RunsInv, NEW c \in DOMAIN log, NEW s \in Sources,
           NEW o \in Outcomes \ {"running"},
           state[s].claim = c, log' = log,
           outcome' = [outcome EXCEPT ![c] = o],
           state'[s].claim = NoClaim, state'[s].fence = state[s].fence,
           \A t \in Sources \ {s} : state'[t] = state[t],
           \/ store' = store
           \/ o = "success" /\ store' = [store EXCEPT ![s] = Append(@, c)]
    PROVE  RunsInv'
<1>1. /\ DOMAIN outcome = DOMAIN log
      /\ DOMAIN log = 1 .. Len(log) /\ Len(log) \in Nat
      /\ c \in 1 .. Len(log) /\ c # NoClaim
      /\ \A i \in DOMAIN log : /\ log[i].source \in Sources
                               /\ log[i].fence \in Nat
      /\ \A t \in Sources : state[t].fence \in Nat
  <2>1. DOMAIN outcome = DOMAIN log /\ DOMAIN log = 1 .. Len(log) /\ Len(log) \in Nat
    BY LogShape
  <2>2. c # NoClaim
    BY <2>1 DEF NoClaim
  <2>3. \A i \in DOMAIN log : log[i].source \in Sources /\ log[i].fence \in Nat
    BY LogShape DEF LogRows
  <2>4. \A t \in Sources : state[t].fence \in Nat
    BY DEF TypeOK, Rows
  <2> QED
    BY <2>1, <2>2, <2>3, <2>4
<1>2. log[c].source = s /\ log[c].fence = state[s].fence /\ outcome[c] = "running"
  BY <1>1 DEF RunsInv, ClaimIsOpenRun
<1>3. /\ DOMAIN outcome' = DOMAIN log
      /\ outcome'[c] = o
      /\ \A i \in DOMAIN log : i # c => outcome'[i] = outcome[i]
  BY <1>1
<1>4. ClaimIsOpenRun'
  <2>1. \A t \in Sources \ {s} : state[t].claim # c
    BY <1>1, <1>2 DEF RunsInv, ClaimIsOpenRun
  <2> QED
    BY <1>3, <2>1 DEF RunsInv, ClaimIsOpenRun
<1>5. OneRunningLog'
  BY <1>1, <1>2, <1>3 DEF RunsInv, OneRunningLog
<1>6. FencesGrow'
  BY <1>1 DEF RunsInv, FencesGrow
<1>7. CASE store' = store
  <2>1. StoreIsOfSuccesses'
    BY <1>2, <1>3, <1>7 DEF RunsInv, StoreIsOfSuccesses
  <2>2. WritesInFenceOrder'
    BY <1>7 DEF RunsInv, WritesInFenceOrder
  <2> QED
    BY <1>4, <1>5, <1>6, <2>1, <2>2 DEF RunsInv
<1>8. CASE o = "success" /\ store' = [store EXCEPT ![s] = Append(@, c)]
  <2> DEFINE n == Len(store[s])
  <2>1. store[s] \in Seq(Nat) /\ c \in Nat
    BY <1>1 DEF TypeOK
  <2>2. /\ n \in Nat
        /\ DOMAIN store[s] = 1 .. n
        /\ DOMAIN Append(store[s], c) = 1 .. n + 1
        /\ \A a \in 1 .. n : Append(store[s], c)[a] = store[s][a]
        /\ Append(store[s], c)[n + 1] = c
    BY <2>1, LenProperties, AppendProperties
  <2>3. store'[s] = Append(store[s], c) /\ \A t \in Sources \ {s} : store'[t] = store[t]
    BY <1>8 DEF TypeOK
  <2>4. StoreIsOfSuccesses'
    <3>1. ASSUME NEW a \in 1 .. n + 1
          PROVE  /\ store'[s][a] \in DOMAIN log
                 /\ log[store'[s][a]].source = s
                 /\ outcome'[store'[s][a]] = "success"
      BY <1>2, <1>3, <1>8, <2>2, <2>3 DEF RunsInv, StoreIsOfSuccesses
    <3>2. ASSUME NEW t \in Sources \ {s}, NEW a \in DOMAIN store[t]
          PROVE  /\ store[t][a] \in DOMAIN log
                 /\ log[store[t][a]].source = t
                 /\ outcome'[store[t][a]] = "success"
      BY <1>2, <1>3 DEF RunsInv, StoreIsOfSuccesses
    <3> QED
      BY <2>2, <2>3, <3>1, <3>2 DEF StoreIsOfSuccesses
  <2>5. \A a \in 1 .. n : log[store[s][a]].fence < log[c].fence
    <3>1. ASSUME NEW a \in 1 .. n
          PROVE  /\ store[s][a] \in 1 .. Len(log)
                 /\ store[s][a] # c
                 /\ log[store[s][a]].source = s
      BY <1>1, <1>2, <2>2 DEF RunsInv, StoreIsOfSuccesses
    <3>2. ASSUME NEW i \in 1 .. Len(log), i # c, log[i].source = s
          PROVE  log[i].fence < log[c].fence
      <4>1. CASE i < c
        BY <1>1, <1>2, <3>2, <4>1 DEF RunsInv, FencesGrow
      <4>2. CASE c < i
        <5>1. log[c].fence < log[i].fence /\ log[i].fence <= state[s].fence
          BY <1>1, <1>2, <3>2, <4>2 DEF RunsInv, FencesGrow
        <5> QED
          BY <1>1, <1>2, <3>2, <5>1
      <4> QED
        BY <1>1, <3>2, <4>1, <4>2
    <3> QED
      BY <3>1, <3>2
  <2>6. WritesInFenceOrder'
    <3>1. ASSUME NEW a \in 1 .. n + 1, NEW b \in 1 .. n + 1, a < b
          PROVE  log[store'[s][a]].fence < log[store'[s][b]].fence
      <4>1. CASE b = n + 1
        BY <2>2, <2>3, <2>5, <3>1, <4>1
      <4>2. CASE b \in 1 .. n
        BY <2>2, <2>3, <3>1, <4>2 DEF RunsInv, WritesInFenceOrder
      <4> QED
        BY <2>2, <4>1, <4>2
    <3> QED
      <4>1. ASSUME NEW t \in Sources \ {s}, NEW a \in DOMAIN store'[t],
                   NEW b \in DOMAIN store'[t], a < b
            PROVE  log'[store'[t][a]].fence < log'[store'[t][b]].fence
        BY <2>3, <4>1 DEF RunsInv, WritesInFenceOrder
      <4>2. DOMAIN store'[s] = 1 .. n + 1
        BY <2>2, <2>3
      <4> QED
        BY <3>1, <4>1, <4>2 DEF WritesInFenceOrder
  <2> QED
    BY <1>4, <1>5, <1>6, <2>4, <2>6 DEF RunsInv
<1> QED
  BY <1>7, <1>8

\* A claim opens a run.
LEMMA RunOpens ==
    ASSUME TypeOK, RunsInv, NEW s \in Sources, NEW dueOnly \in BOOLEAN,
           Claim(s, dueOnly)
    PROVE  RunsInv'
<1> DEFINE n == Len(log)
<1>1. /\ DOMAIN outcome = 1 .. n /\ DOMAIN log = 1 .. n /\ n \in Nat
      /\ \A i \in 1 .. n : log[i].source \in Sources /\ log[i].fence \in Nat
      /\ \A t \in Sources : state[t].fence \in Nat
  BY LogShape DEF TypeOK, LogRows, Rows
<1>2. /\ DOMAIN log' = 1 .. n + 1
      /\ \A i \in 1 .. n : log'[i] = log[i]
      /\ log'[n + 1].source = s
      /\ log'[n + 1].fence = state[s].fence + 1
  <2>1. log' = Append(log, [source |-> s, fence |-> state[s].fence + 1, gen |-> profile[s].gen])
        /\ log \in Seq(LogRows)
        /\ [source |-> s, fence |-> state[s].fence + 1, gen |-> profile[s].gen] \in LogRows
    BY <1>1 DEF Claim, TypeOK, LogRows, Profiles
  <2> QED
    BY <2>1, AppendProperties
<1>3. /\ DOMAIN outcome' = 1 .. n + 1
      /\ \A i \in 1 .. n : outcome'[i] = ExpireOld(s)[i]
      /\ outcome'[n + 1] = "running"
  <2>1. outcome' = Append(ExpireOld(s), "running") /\ "running" \in Outcomes
        /\ ExpireOld(s) \in Seq(Outcomes) /\ Len(ExpireOld(s)) = n
    BY ExpireType, OutcomesAre DEF Claim
  <2> QED
    BY <2>1, AppendProperties
<1>4. \A i \in 1 .. n : outcome'[i] = IF i = state[s].claim /\ outcome[i] = "running"
                                      THEN "lease_expired" ELSE outcome[i]
  BY <1>1, <1>3 DEF ExpireOld
<1>5. /\ state'[s].claim = n + 1
      /\ state'[s].fence = state[s].fence + 1
      /\ \A t \in Sources \ {s} : state'[t] = state[t]
  BY DEF Claim, TypeOK, Rows
<1>6. ClaimIsOpenRun'
  <2>1. ASSUME NEW t \in Sources \ {s}, state[t].claim # NoClaim
        PROVE  /\ state[t].claim \in 1 .. n
               /\ log'[state[t].claim].source = t
               /\ log'[state[t].claim].fence = state[t].fence
               /\ outcome'[state[t].claim] = "running"
    <3>1. /\ state[t].claim \in 1 .. n
          /\ log[state[t].claim].source = t
          /\ log[state[t].claim].fence = state[t].fence
          /\ outcome[state[t].claim] = "running"
      BY <1>1, <2>1 DEF RunsInv, ClaimIsOpenRun
    <3>2. state[t].claim # state[s].claim
      BY <2>1, <3>1 DEF RunsInv, ClaimIsOpenRun
    <3> QED
      BY <1>2, <1>4, <3>1, <3>2
  <2> QED
    BY <1>1, <1>2, <1>3, <1>5, <2>1 DEF ClaimIsOpenRun
<1>7. OneRunningLog'
  <2>1. ASSUME NEW i \in 1 .. n, outcome'[i] = "running"
        PROVE  state'[log'[i].source].claim = i
    <3>1. outcome[i] = "running" /\ i # state[s].claim
      BY <1>4, <2>1
    <3>2. state[log[i].source].claim = i
      BY <1>1, <3>1 DEF RunsInv, OneRunningLog
    <3> QED
      BY <1>1, <1>2, <1>5, <3>1, <3>2
  <2> QED
    BY <1>1, <1>2, <1>3, <1>5, <2>1 DEF OneRunningLog
<1>8. FencesGrow'
  <2>1. ASSUME NEW i \in 1 .. n + 1
        PROVE  log'[i].fence <= state'[log'[i].source].fence
    <3>1. CASE i \in 1 .. n
      <4>1. log[i].fence <= state[log[i].source].fence
        BY <1>1, <3>1 DEF RunsInv, FencesGrow
      <4>2. log'[i] = log[i] /\ log[i].source \in Sources /\ log[i].fence \in Nat
        BY <1>1, <1>2, <3>1
      <4>3. state[log[i].source].fence \in Nat /\ state[s].fence + 1 \in Nat
        BY <1>1, <4>2
      <4>4. state[log[i].source].fence <= state'[log[i].source].fence
        BY <1>5, <4>2, <4>3
      <4> HIDE DEF n
      <4>5. log[i].fence <= state'[log[i].source].fence
        BY <1>1, <1>5, <4>1, <4>2, <4>3, <4>4
      <4> QED
        BY <4>2, <4>5
    <3>2. CASE i = n + 1
      <4>1. log'[i].source = s /\ log'[i].fence = state'[s].fence
        BY <1>2, <1>5, <3>2
      <4>2. state'[s].fence \in Nat
        BY <1>1, <1>5
      <4> QED
        BY <4>1, <4>2
    <3> QED
      BY <1>1, <3>1, <3>2
  <2>2. ASSUME NEW i \in 1 .. n + 1, NEW j \in 1 .. n + 1,
               i < j, log'[i].source = log'[j].source
        PROVE  log'[i].fence < log'[j].fence
    <3>1. CASE j \in 1 .. n
      <4>1. i \in 1 .. n /\ log'[i] = log[i] /\ log'[j] = log[j]
        BY <1>1, <1>2, <2>2, <3>1
      <4> QED
        BY <1>1, <2>2, <3>1, <4>1 DEF RunsInv, FencesGrow
    <3>2. CASE j = n + 1
      <4>1. i \in 1 .. n /\ log[i].source = s
        BY <1>1, <1>2, <2>2, <3>2
      <4>2. log[i].fence <= state[s].fence
        BY <1>1, <4>1 DEF RunsInv, FencesGrow
      <4> QED
        BY <1>1, <1>2, <3>2, <4>1, <4>2
    <3> QED
      BY <1>1, <3>1, <3>2
  <2> QED
    BY <1>2, <2>1, <2>2 DEF FencesGrow
<1>9. store' = store
  BY DEF Claim
<1>10. StoreIsOfSuccesses'
  <2>1. ASSUME NEW t \in Sources, NEW a \in DOMAIN store[t]
        PROVE  /\ store[t][a] \in DOMAIN log'
               /\ log'[store[t][a]].source = t
               /\ outcome'[store[t][a]] = "success"
    BY <1>1, <1>2, <1>4 DEF RunsInv, StoreIsOfSuccesses
  <2> QED
    BY <1>9, <2>1 DEF StoreIsOfSuccesses
<1>11. WritesInFenceOrder'
  <2>1. \A t \in Sources : \A a \in DOMAIN store[t] : log'[store[t][a]] = log[store[t][a]]
    BY <1>1, <1>2 DEF RunsInv, StoreIsOfSuccesses
  <2> QED
    BY <1>9, <2>1 DEF RunsInv, WritesInFenceOrder
<1> QED
  BY <1>6, <1>7, <1>8, <1>10, <1>11 DEF RunsInv

\* A source keeps what ApprovedRecipeRunsNext says of it while its route, its
\* generation and the ended runs stay and its due time does not become later.
LEMMA ApprovedFrame ==
    ASSUME NEW s \in Sources,
           profile[s].schema /\ state[s].due > 0 => Tried(s),
           profile'[s].schema => profile[s].schema /\ profile'[s].gen = profile[s].gen,
           state'[s].due > 0 => state[s].due > 0,
           \A i \in DOMAIN log : /\ i \in DOMAIN log'
                                 /\ log'[i] = log[i]
                                 /\ outcome[i] # "running" => outcome'[i] # "running"
    PROVE  profile'[s].schema /\ state'[s].due > 0 => Tried(s)'
<1>1. SUFFICES ASSUME profile'[s].schema, state'[s].due > 0
               PROVE  Tried(s)'
  OBVIOUS
<1>2. PICK i \in DOMAIN log : /\ log[i].source = s
                              /\ log[i].gen = profile[s].gen
                              /\ outcome[i] # "running"
  BY <1>1 DEF Tried
<1>3. i \in DOMAIN log' /\ log'[i] = log[i] /\ outcome'[i] # "running"
  BY <1>2
<1>4. profile'[s].gen = profile[s].gen
  BY <1>1
<1> QED
  BY <1>2, <1>3, <1>4 DEF Tried

\* Workers keep what RunsKnowTheirClaim says of them while the log only grows.
LEMMA KnowFrame ==
    ASSUME RunsKnowTheirClaim,
           \A i \in DOMAIN log : i \in DOMAIN log' /\ log'[i] = log[i],
           \A w \in Workers : pc'[w] # "idle" =>
               /\ pc[w] # "idle"
               /\ run'[w].claim = run[w].claim
               /\ run'[w].fence = run[w].fence
               /\ run'[w].gen = run[w].gen
               /\ pc'[w] = "abandoning" => run'[w].kind # "ok"
    PROVE  RunsKnowTheirClaim'
BY DEF RunsKnowTheirClaim

LEMMA MoveKnows ==
    ASSUME TypeOK, RunsKnowTheirClaim, NEW w \in Workers, pc[w] # "idle", log' = log,
           NEW step \in Steps, GoTo(w, step),
           \A v \in Workers \ {w} : run'[v] = run[v],
           run'[w].claim = run[w].claim,
           run'[w].fence = run[w].fence,
           run'[w].gen = run[w].gen,
           step = "abandoning" => run'[w].kind # "ok"
    PROVE  RunsKnowTheirClaim'
<1>1. pc'[w] = step /\ \A v \in Workers \ {w} : pc'[v] = pc[v]
  BY DEF TypeOK, GoTo
<1> QED
  BY <1>1 DEF RunsKnowTheirClaim

LEMMA FinishKnows ==
    ASSUME TypeOK, RunsKnowTheirClaim, NEW w \in Workers, Finish(w), log' = log
    PROVE  RunsKnowTheirClaim'
BY DEF TypeOK, RunsKnowTheirClaim, Finish, GoTo

Rest ==
    /\ RunsKnowTheirClaim
    /\ RunsInv
    /\ RecipeHasRow
    /\ ApprovedRecipeRunsNext

\* A step of a worker, or of the queue, that writes nothing to the database.
LEMMA WorkerStep ==
    ASSUME TypeOK, Rest, UNCHANGED <<profile, state, log, outcome, store>>,
           RunsKnowTheirClaim'
    PROVE  Rest'
<1>1. RunsInv'
  BY RunsFrame DEF Rest
<1>2. RecipeHasRow' /\ ApprovedRecipeRunsNext'
  BY DEF Rest, RecipeHasRow, ApprovedRecipeRunsNext, Tried
<1> QED
  BY <1>1, <1>2 DEF Rest

\* A step that keeps the runs and the workers, and changes the row of s alone.
LEMMA RowStep ==
    ASSUME TypeOK, Rest, UNCHANGED <<log, outcome, store, pc, run>>,
           NEW s \in Sources,
           \A t \in Sources \ {s} : /\ state'[t] = state[t]
                                    /\ profile'[t].schema = profile[t].schema
                                    /\ profile'[t].gen = profile[t].gen,
           state'[s].claim = state[s].claim,
           state'[s].fence = state[s].fence,
           profile'[s].schema => state'[s].exists,
           \/ ~profile'[s].schema
           \/ state'[s].due = 0
           \/ /\ profile[s].schema /\ profile'[s].gen = profile[s].gen
              /\ state'[s].due = state[s].due
    PROVE  Rest'
<1>1. RunsInv'
  BY RunsFrame DEF Rest
<1>2. RunsKnowTheirClaim'
  BY KnowFrame DEF Rest, RunsKnowTheirClaim
<1>3. RecipeHasRow'
  BY DEF Rest, RecipeHasRow
<1>4. ApprovedRecipeRunsNext'
  <2>1. ASSUME NEW t \in Sources
        PROVE  profile'[t].schema /\ state'[t].due > 0 => Tried(t)'
    <3>1. CASE ~profile'[t].schema \/ state'[t].due = 0
      BY <3>1
    <3>2. CASE ~(~profile'[t].schema \/ state'[t].due = 0)
      <4>1. /\ profile'[t].schema => profile[t].schema /\ profile'[t].gen = profile[t].gen
            /\ state'[t].due = state[t].due
        BY <3>2
      <4>2. profile[t].schema /\ state[t].due > 0 => Tried(t)
        BY DEF Rest, ApprovedRecipeRunsNext
      <4> QED
        BY <4>1, <4>2, ApprovedFrame
    <3> QED
      BY <3>1, <3>2
  <2> QED
    BY <2>1 DEF ApprovedRecipeRunsNext
<1> QED
  BY <1>1, <1>2, <1>3, <1>4 DEF Rest

\* The worker's run ends by Settle, with articles (a commit) or without.
LEMMA SettleStep ==
    ASSUME TypeOK, Rest, NEW w \in Workers, NEW kind \in Kinds,
           NEW s \in Sources, s = SourceOf(w),
           pc[w] # "idle", Holds(w), Settle(w, kind), Finish(w),
           UNCHANGED <<source, profile, log, queue>>,
           \/ store' = store
           \/ kind = "ok" /\ store' = [store EXCEPT ![s] = Append(@, run[w].claim)]
    PROVE  Rest'
<1> DEFINE c == run[w].claim
           o == OutcomeOf(kind)
<1>1. c \in DOMAIN log /\ log[c].source = s /\ log[c].gen = run[w].gen
  BY DEF Rest, RunsKnowTheirClaim, SourceOf
<1>2. state[s].claim = c /\ profile[s].gen = run[w].gen
  BY DEF Holds
<1>3. o \in Outcomes \ {"running"} /\ (kind = "ok" => o = "success")
  BY OutcomeType, OutcomesAre DEF OutcomeOf
<1>4. PICK d \in Delays(kind) : state' = [state EXCEPT ![s] = Settled(state[s], d, kind)]
  BY DEF Settle
<1>5. /\ state'[s] = Settled(state[s], d, kind)
      /\ \A t \in Sources \ {s} : state'[t] = state[t]
  BY <1>1, <1>4 DEF TypeOK
<1>6. /\ state'[s].claim = NoClaim
      /\ state'[s].fence = state[s].fence
      /\ state'[s].exists = state[s].exists
  <2>1. state[s] \in Rows
    BY <1>1 DEF TypeOK
  <2> QED
    BY <1>5, <2>1 DEF Settled, Rows
<1>7. outcome' = [outcome EXCEPT ![c] = o]
  BY DEF Settle
<1>8. RunsInv'
  <2>1. \/ store' = store
        \/ o = "success" /\ store' = [store EXCEPT ![s] = Append(@, c)]
    BY <1>3
  <2> HIDE DEF c, o
  <2> QED
    BY <1>1, <1>2, <1>3, <1>5, <1>6, <1>7, <2>1, RunEnds DEF Rest
<1>9. RunsKnowTheirClaim'
  BY FinishKnows DEF Rest
<1>10. RecipeHasRow'
  BY <1>5, <1>6 DEF Rest, RecipeHasRow
<1>11. ApprovedRecipeRunsNext'
  <2>1. /\ DOMAIN outcome = DOMAIN log
        /\ outcome'[c] # "running"
        /\ \A i \in DOMAIN log : outcome[i] # "running" => outcome'[i] # "running"
    BY <1>1, <1>3, <1>7, LogShape
  <2>2. Tried(s)'
    BY <1>1, <1>2, <2>1 DEF Tried
  <2>3. ASSUME NEW t \in Sources \ {s}
        PROVE  profile'[t].schema /\ state'[t].due > 0 => Tried(t)'
    <3>1. profile[t].schema /\ state[t].due > 0 => Tried(t)
      BY DEF Rest, ApprovedRecipeRunsNext
    <3> QED
      BY <1>5, <2>1, <3>1, ApprovedFrame
  <2> QED
    BY <2>2, <2>3 DEF ApprovedRecipeRunsNext
<1> QED
  BY <1>8, <1>9, <1>10, <1>11 DEF Rest

\* runs.mark_stale: if the log row is still running its claim is still the row's,
\* so both end together; otherwise another run has the row and nothing changes.
LEMMA StaleStep ==
    ASSUME TypeOK, Rest, NEW w \in Workers, MarkStale(w)
    PROVE  Rest'
<1> DEFINE c == run[w].claim
<1>1. c \in DOMAIN log /\ run[w].fence = log[c].fence /\ SourceOf(w) \in Sources
  BY SourceType DEF MarkStale, Rest, RunsKnowTheirClaim
<1>2. PICK s \in Sources : s = SourceOf(w)
  BY <1>1
<1>3. RunsKnowTheirClaim'
  BY FinishKnows DEF MarkStale, Rest
<1>4. CASE outcome[c] # "running"
  <2>1. state[s].claim # c
    BY <1>1, <1>4, LogShape DEF Rest, RunsInv, ClaimIsOpenRun, NoClaim
  <2>2. UNCHANGED <<profile, state, log, outcome, store>>
    BY <1>2, <1>4, <2>1 DEF MarkStale
  <2> QED
    BY <1>3, <2>2, WorkerStep
<1>5. CASE outcome[c] = "running"
  <2>1. state[s].claim = c /\ log[c].source = s
    BY <1>1, <1>2, <1>5, LogShape DEF Rest, RunsInv, OneRunningLog, SourceOf
  <2>2. state[s].fence = run[w].fence
    BY <1>1, <2>1, LogShape DEF Rest, RunsInv, ClaimIsOpenRun, NoClaim
  <2>3. /\ state' = [state EXCEPT ![s] = Released(state[s])]
        /\ outcome' = [outcome EXCEPT ![c] = "stale"]
    BY <1>2, <1>5, <2>1, <2>2 DEF MarkStale
  <2>4. /\ state'[s].claim = NoClaim
        /\ state'[s].fence = state[s].fence
        /\ state'[s].exists = state[s].exists
        /\ state'[s].due = state[s].due
        /\ \A t \in Sources \ {s} : state'[t] = state[t]
    BY <2>3 DEF Released, TypeOK, Rows
  <2>5. UNCHANGED <<profile, log, store>>
    BY DEF MarkStale
  <2>6. RunsInv'
    <3>1. "stale" \in Outcomes \ {"running"}
      BY OutcomesAre
    <3> HIDE DEF c
    <3> QED
      <4>1. UNCHANGED <<log, store>> /\ c \in DOMAIN log
        BY <1>1, <2>5
      <4> QED
        BY <2>1, <2>3, <2>4, <3>1, <4>1, RunEnds DEF Rest
  <2>7. RecipeHasRow'
    BY <2>4, <2>5 DEF Rest, RecipeHasRow
  <2>8. ApprovedRecipeRunsNext'
    <3>1. \A i \in DOMAIN log : outcome[i] # "running" => outcome'[i] # "running"
      BY <1>5, <2>3, LogShape
    <3>2. ASSUME NEW t \in Sources
          PROVE  profile'[t].schema /\ state'[t].due > 0 => Tried(t)'
      <4>1. profile[t].schema /\ state[t].due > 0 => Tried(t)
        BY DEF Rest, ApprovedRecipeRunsNext
      <4>2. state'[t].due = state[t].due
        BY <2>4
      <4> QED
        BY <2>5, <3>1, <4>1, <4>2, ApprovedFrame
    <3> QED
      BY <3>2 DEF ApprovedRecipeRunsNext
  <2> QED
    BY <1>3, <2>6, <2>7, <2>8 DEF Rest
<1> QED
  BY <1>4, <1>5

\* Every action keeps the rest of the invariant.
LEMMA RestStep ==
    ASSUME TypeOK, Rest, [Next]_vars
    PROVE  Rest'
<1> USE ConstantsAssumption
<1>1. CASE UNCHANGED vars
  <2>1. RunsKnowTheirClaim'
    BY <1>1 DEF Rest, RunsKnowTheirClaim, vars
  <2> QED
    BY <1>1, <2>1, WorkerStep DEF vars
<1>2. ASSUME NEW s \in Sources, EnsureState(s) PROVE Rest'
  <2>1. ~profile[s].schema
    BY <1>2 DEF EnsureState, Rest, RecipeHasRow
  <2>2. /\ state'[s].claim = state[s].claim
        /\ state'[s].fence = state[s].fence
        /\ \A t \in Sources \ {s} : state'[t] = state[t]
    BY <1>2 DEF EnsureState, TypeOK, Rows
  <2> QED
    BY <1>2, <2>1, <2>2, RowStep DEF EnsureState
<1>3. ASSUME NEW s \in Sources, NEW dueOnly \in BOOLEAN, Claim(s, dueOnly) PROVE Rest'
  <2>1. RunsInv'
    BY <1>3, RunOpens DEF Rest
  <2>2. \A i \in DOMAIN log : /\ i \in DOMAIN log'
                              /\ log'[i] = log[i]
                              /\ outcome[i] # "running" => outcome'[i] # "running"
    <3>1. ExpireOld(s) \in Seq(Outcomes) /\ Len(ExpireOld(s)) = Len(log)
          /\ "running" \in Outcomes
      BY ExpireType, OutcomesAre
    <3>2. /\ DOMAIN log' = 1 .. Len(log) + 1
          /\ \A i \in 1 .. Len(log) : log'[i] = log[i]
      <4>1. /\ log \in Seq(LogRows)
            /\ [source |-> s, fence |-> state[s].fence + 1, gen |-> profile[s].gen] \in LogRows
        BY DEF TypeOK, LogRows, Rows, Profiles
      <4> QED
        BY <1>3, <4>1, AppendProperties DEF Claim
    <3>3. \A i \in 1 .. Len(log) : outcome'[i] = ExpireOld(s)[i]
      BY <1>3, <3>1, AppendProperties DEF Claim
    <3> QED
      BY <3>2, <3>3, LogShape DEF ExpireOld
  <2>3. RunsKnowTheirClaim'
    BY <1>3, <2>2, KnowFrame DEF Claim, Rest, RunsKnowTheirClaim
  <2>4. \A t \in Sources : state'[t].exists = state[t].exists /\ state'[t].due = state[t].due
    BY <1>3 DEF Claim, TypeOK, Rows
  <2>5. profile' = profile
    BY <1>3 DEF Claim
  <2>6. RecipeHasRow'
    BY <2>4, <2>5 DEF Rest, RecipeHasRow
  <2>7. ApprovedRecipeRunsNext'
    <3>1. ASSUME NEW t \in Sources
          PROVE  profile'[t].schema /\ state'[t].due > 0 => Tried(t)'
      <4>1. profile[t].schema /\ state[t].due > 0 => Tried(t)
        BY DEF Rest, ApprovedRecipeRunsNext
      <4> QED
        BY <2>2, <2>4, <2>5, <4>1, ApprovedFrame
    <3> QED
      BY <3>1 DEF ApprovedRecipeRunsNext
  <2> QED
    BY <2>1, <2>3, <2>6, <2>7 DEF Rest
<1>4. ASSUME NEW c \in queue, LoseMessage(c) PROVE Rest'
  <2>1. RunsKnowTheirClaim'
    BY <1>4, KnowFrame DEF LoseMessage, Rest, RunsKnowTheirClaim
  <2> QED
    BY <1>4, <2>1, WorkerStep DEF LoseMessage
<1>5. ASSUME NEW w \in Workers, NEW c \in queue, Start(w, c) PROVE Rest'
  <2> DEFINE s == log[c].source
  <2>1. CASE UNCHANGED <<pc, run>>
    BY <1>5, <2>1, WorkerStep DEF Start, Rest, RunsKnowTheirClaim
  <2>2. CASE /\ state[s].claim = c /\ Live(s)
             /\ GoTo(w, "routing")
             /\ run' = [run EXCEPT ![w] = [NoRun EXCEPT !.claim = c,
                                             !.fence = state[s].fence, !.gen = log[c].gen]]
    <3>1. c \in DOMAIN log /\ s \in Sources
      BY LogShape DEF TypeOK, LogRows
    <3>2. log[c].fence = state[s].fence
      BY <2>2, <3>1 DEF Rest, RunsInv, ClaimIsOpenRun, Live
    <3>3. /\ pc'[w] = "routing"
          /\ run'[w].claim = c /\ run'[w].fence = state[s].fence /\ run'[w].gen = log[c].gen
          /\ \A v \in Workers \ {w} : pc'[v] = pc[v] /\ run'[v] = run[v]
      BY <2>2 DEF TypeOK, GoTo, NoRun
    <3>4. log' = log
      BY <1>5 DEF Start
    <3>5. RunsKnowTheirClaim'
      <4>1. ASSUME NEW v \in Workers, pc'[v] # "idle"
            PROVE  /\ run'[v].claim \in DOMAIN log
                   /\ run'[v].fence = log[run'[v].claim].fence
                   /\ run'[v].gen = log[run'[v].claim].gen
                   /\ pc'[v] = "abandoning" => run'[v].kind # "ok"
        <5>1. CASE v = w
          BY <3>1, <3>2, <3>3, <5>1
        <5>2. CASE v # w
          BY <3>3, <4>1, <5>2 DEF Rest, RunsKnowTheirClaim
        <5> QED
          BY <5>1, <5>2
      <4> QED
        BY <3>4, <4>1 DEF RunsKnowTheirClaim
    <3> QED
      BY <1>5, <3>5, WorkerStep DEF Start
  <2> QED
    BY <1>5, <2>1, <2>2 DEF Start
<1>6. ASSUME NEW w \in Workers, Route(w) PROVE Rest'
  <2>1. \/ run' = run /\ GoTo(w, "stale")
        \/ run' = [run EXCEPT ![w].route = "legacy"] /\ GoTo(w, "fetching")
        \/ run' = [run EXCEPT ![w].route = "schema"] /\ GoTo(w, "reading")
        \/ /\ run' = [run EXCEPT ![w].route = "schema", ![w].kind = "blocked"]
           /\ GoTo(w, "abandoning")
    BY <1>6 DEF Route
  <2>2. \A v \in Workers \ {w} : run'[v] = run[v]
    BY <2>1 DEF TypeOK
  <2>3. /\ run'[w].claim = run[w].claim
        /\ run'[w].fence = run[w].fence
        /\ run'[w].gen = run[w].gen
    BY <2>1 DEF TypeOK, Runs
  <2>4. PICK step \in Steps : GoTo(w, step) /\ (step = "abandoning" => run'[w].kind # "ok")
    BY <2>1 DEF TypeOK, Runs, Steps
  <2>5. RunsKnowTheirClaim'
    BY <1>6, <2>2, <2>3, <2>4, MoveKnows DEF Route, Rest
  <2> QED
    BY <1>6, <2>5, WorkerStep DEF Route
<1>7. ASSUME NEW w \in Workers, ReadSource(w) PROVE Rest'
  <2>1. CASE Finish(w)
    BY <1>7, <2>1, FinishKnows, WorkerStep DEF ReadSource, Rest
  <2>2. CASE GoTo(w, "fetching") /\ run' = [run EXCEPT ![w].rev = source[SourceOf(w)].rev]
    <3>1. \A v \in Workers \ {w} : run'[v] = run[v]
      BY <2>2 DEF TypeOK
    <3>2. /\ run'[w].claim = run[w].claim
          /\ run'[w].fence = run[w].fence
          /\ run'[w].gen = run[w].gen
      BY <2>2 DEF TypeOK, Runs
    <3>3. PICK step \in Steps : GoTo(w, step) /\ (step = "abandoning" => run'[w].kind # "ok")
      BY <2>2 DEF Steps
    <3>4. RunsKnowTheirClaim'
      BY <1>7, <3>1, <3>2, <3>3, MoveKnows DEF ReadSource, Rest
    <3> QED
      BY <1>7, <3>4, WorkerStep DEF ReadSource
  <2> QED
    BY <1>7, <2>1, <2>2 DEF ReadSource
<1>8. ASSUME NEW w \in Workers, NEW kind \in Kinds, Commit(w, kind) PROVE Rest'
  <2>1. SourceOf(w) \in Sources
    BY <1>8, SourceType DEF Commit, Rest, RunsKnowTheirClaim
  <2>2. PICK s \in Sources : s = SourceOf(w)
    BY <2>1
  <2> QED
    BY <1>8, <2>2, SettleStep DEF Commit
<1>9. ASSUME NEW w \in Workers, CommitRefused(w) PROVE Rest'
  <2>1. \/ run' = run /\ GoTo(w, "stale")
        \/ run' = [run EXCEPT ![w].kind = "extraction"] /\ GoTo(w, "abandoning")
    BY <1>9 DEF CommitRefused
  <2>2. /\ \A v \in Workers \ {w} : run'[v] = run[v]
        /\ run'[w].claim = run[w].claim
        /\ run'[w].fence = run[w].fence
        /\ run'[w].gen = run[w].gen
    BY <2>1 DEF TypeOK, Runs
  <2>3. PICK step \in Steps : GoTo(w, step) /\ (step = "abandoning" => run'[w].kind # "ok")
    BY <2>1 DEF TypeOK, Runs, Steps
  <2>4. RunsKnowTheirClaim'
    BY <1>9, <2>2, <2>3, MoveKnows DEF CommitRefused, Rest
  <2> QED
    BY <1>9, <2>4, WorkerStep DEF CommitRefused
<1>10. ASSUME NEW w \in Workers, NEW kind \in FailureKinds, Fails(w, kind) PROVE Rest'
  <2>1. run' = [run EXCEPT ![w].kind = kind] /\ GoTo(w, "abandoning") /\ kind # "ok"
    BY <1>10 DEF Fails, FailureKinds
  <2>2. /\ \A v \in Workers \ {w} : run'[v] = run[v]
        /\ run'[w].claim = run[w].claim
        /\ run'[w].fence = run[w].fence
        /\ run'[w].gen = run[w].gen
        /\ run'[w].kind = kind
    BY <2>1 DEF TypeOK, Runs
  <2>3. PICK step \in Steps : GoTo(w, step) /\ (step = "abandoning" => run'[w].kind # "ok")
    BY <2>1, <2>2 DEF Steps
  <2>4. RunsKnowTheirClaim'
    BY <1>10, <2>2, <2>3, MoveKnows DEF Fails, Rest
  <2> QED
    BY <1>10, <2>4, WorkerStep DEF Fails
<1>11. ASSUME NEW w \in Workers, Abandon(w) PROVE Rest'
  <2>1. SourceOf(w) \in Sources
    BY <1>11, SourceType DEF Abandon, Rest, RunsKnowTheirClaim
  <2>2. PICK s \in Sources : s = SourceOf(w)
    BY <2>1
  <2>3. run[w].kind \in Kinds
    BY DEF TypeOK, Runs
  <2>4. CASE Holds(w) /\ Settle(w, run[w].kind) /\ Finish(w)
    BY <1>11, <2>2, <2>3, <2>4, SettleStep DEF Abandon
  <2>5. CASE GoTo(w, "stale") /\ UNCHANGED <<state, outcome, run>>
    <3>1. RunsKnowTheirClaim'
      BY <1>11, <2>5 DEF Abandon, Rest, RunsKnowTheirClaim, TypeOK, GoTo
    <3> QED
      BY <1>11, <2>5, <3>1, WorkerStep DEF Abandon
  <2> QED
    BY <1>11, <2>4, <2>5 DEF Abandon
<1>12. ASSUME NEW w \in Workers, MarkStale(w) PROVE Rest'
  BY <1>12, StaleStep
<1>13. ASSUME NEW w \in Workers, Crash(w) PROVE Rest'
  BY <1>13, FinishKnows, WorkerStep DEF Crash, Rest
<1>14. ASSUME NEW s \in Sources, NEW active \in BOOLEAN, NEW inputs \in BOOLEAN,
              EditSource(s, active, inputs) PROVE Rest'
  <2>1. \A t \in Sources : /\ profile'[t].schema = profile[t].schema
                           /\ profile'[t].gen = profile[t].gen
    BY <1>14 DEF EditSource, TypeOK, Profiles
  <2> QED
    BY <1>14, <2>1, RowStep DEF EditSource, Rest, RecipeHasRow
<1>15. ASSUME NEW s \in Sources, NEW granted \in BOOLEAN, SetPolicy(s, granted) PROVE Rest'
  <2>1. \A t \in Sources : /\ profile'[t].schema = profile[t].schema
                           /\ profile'[t].gen = profile[t].gen
    BY <1>15 DEF SetPolicy, TypeOK, Profiles
  <2> QED
    BY <1>15, <2>1, RowStep DEF SetPolicy, Rest, RecipeHasRow
<1>16. ASSUME NEW s \in Sources, NEW r \in Reasons,
              state' = [state EXCEPT ![s] = DueNow(@, r)]
       PROVE  /\ state'[s].exists = TRUE /\ state'[s].due = 0
              /\ state'[s].claim = state[s].claim
              /\ state'[s].fence = state[s].fence
              /\ \A t \in Sources \ {s} : state'[t] = state[t]
  BY <1>16 DEF DueNow, TypeOK, Rows
<1>17. ASSUME NEW s \in Sources, Activate(s) PROVE Rest'
  <2>1. \A t \in Sources \ {s} : profile'[t] = profile[t]
    BY <1>17 DEF Activate, TypeOK
  <2>2. "activation" \in Reasons /\ state' = [state EXCEPT ![s] = DueNow(@, "activation")]
    BY <1>17 DEF Activate, Reasons
  <2>3. /\ state'[s].exists = TRUE /\ state'[s].due = 0
        /\ state'[s].claim = state[s].claim
        /\ state'[s].fence = state[s].fence
        /\ \A t \in Sources \ {s} : state'[t] = state[t]
    BY <1>16, <2>2
  <2> QED
    BY <1>17, <2>1, <2>3, RowStep DEF Activate
<1>18. ASSUME NEW s \in Sources, Retire(s) PROVE Rest'
  <2>1. ~profile'[s].schema /\ \A t \in Sources \ {s} : profile'[t] = profile[t]
    BY <1>18 DEF Retire, TypeOK, Profiles
  <2> QED
    BY <1>18, <2>1, RowStep DEF Retire
<1>19. ASSUME NEW s \in Sources, Reject(s) \/ RequestNow(s) PROVE Rest'
  BY <1>16, <1>19, RowStep DEF Reject, RequestNow, Reasons
<1>20. ASSUME NEW s \in Sources, NEW paused \in BOOLEAN, SetPaused(s, paused) PROVE Rest'
  <2>1. /\ state'[s].exists = TRUE /\ state'[s].due = state[s].due
        /\ state'[s].claim = state[s].claim
        /\ state'[s].fence = state[s].fence
        /\ \A t \in Sources \ {s} : state'[t] = state[t]
    BY <1>20 DEF SetPaused, TypeOK, Rows
  <2> QED
    BY <1>20, <2>1, RowStep DEF SetPaused
<1>21. CASE Tick
  <2>1. \A s \in Sources : /\ state'[s].claim = state[s].claim
                           /\ state'[s].fence = state[s].fence
                           /\ state'[s].exists = state[s].exists
                           /\ state'[s].due = Less(state[s].due)
    <3>1. ASSUME NEW s \in Sources
          PROVE  /\ state[s] \in Rows
                 /\ state'[s] = [state[s] EXCEPT !.due = Less(@), !.lease = Less(@)]
      BY <1>21 DEF Tick, TypeOK
    <3>2. ASSUME NEW s \in Sources
          PROVE  /\ state'[s].claim = state[s].claim
                 /\ state'[s].fence = state[s].fence
                 /\ state'[s].exists = state[s].exists
                 /\ state'[s].due = Less(state[s].due)
      BY <3>1 DEF Rows
    <3> QED
      BY <3>2
  <2>2. RunsInv'
    BY <1>21, <2>1, RunsFrame DEF Tick, Rest
  <2>3. \A w \in Workers : /\ run'[w].claim = run[w].claim
                           /\ run'[w].fence = run[w].fence
                           /\ run'[w].gen = run[w].gen
                           /\ run'[w].kind = run[w].kind
    BY <1>21 DEF Tick, TypeOK, Runs
  <2>4. RunsKnowTheirClaim'
    <3>1. log' = log /\ pc' = pc
      BY <1>21 DEF Tick
    <3>2. \A w \in Workers : pc[w] = "abandoning" => run[w].kind # "ok"
      BY DEF Rest, RunsKnowTheirClaim
    <3> QED
      BY <2>3, <3>1, <3>2, KnowFrame DEF Rest
  <2>5. RecipeHasRow'
    BY <1>21, <2>1 DEF Tick, Rest, RecipeHasRow
  <2>6. ApprovedRecipeRunsNext'
    <3>1. ASSUME NEW s \in Sources
          PROVE  profile'[s].schema /\ state'[s].due > 0 => Tried(s)'
      <4>1. state'[s].due > 0 => state[s].due > 0
        BY <2>1 DEF Less, TypeOK, Rows
      <4>2. profile[s].schema /\ state[s].due > 0 => Tried(s)
        BY DEF Rest, ApprovedRecipeRunsNext
      <4> QED
        BY <1>21, <4>1, <4>2, ApprovedFrame DEF Tick
    <3> QED
      BY <3>1 DEF ApprovedRecipeRunsNext
  <2> QED
    BY <2>2, <2>4, <2>5, <2>6 DEF Rest
<1> QED
  BY <1>1, <1>2, <1>3, <1>4, <1>5, <1>6, <1>7, <1>8, <1>9, <1>10, <1>11, <1>12, <1>13,
     <1>14, <1>15, <1>17, <1>18, <1>19, <1>20, <1>21
  DEF Next, Execute, Admin, DispatchDue, ManualClaim

----------------------------------------------------------------------------
\* What holds of every behaviour.

LEMMA InitIInv == Init => IInv
<1>1. SUFFICES ASSUME Init PROVE IInv
  OBVIOUS
<1>2. NoRow \in Rows
  BY Zenon DEF NoRow, Rows, Reasons, NoClaim
<1>3. TypeOK
  BY <1>1, <1>2, NoRunType, EmptySeq DEF Init, TypeOK, Profiles, Steps
<1>4. RunsKnowTheirClaim
  BY <1>1 DEF Init, RunsKnowTheirClaim
<1>5. ClaimIsOpenRun
  BY <1>1 DEF Init, ClaimIsOpenRun, NoRow
<1>6. OneRunningLog /\ FencesGrow
  BY <1>1 DEF Init, OneRunningLog, FencesGrow
<1>7. StoreIsOfSuccesses /\ WritesInFenceOrder
  BY <1>1 DEF Init, StoreIsOfSuccesses, WritesInFenceOrder
<1>8. RecipeHasRow /\ ApprovedRecipeRunsNext
  BY <1>1 DEF Init, RecipeHasRow, ApprovedRecipeRunsNext
<1> QED
  BY <1>3, <1>4, <1>5, <1>6, <1>7, <1>8 DEF IInv

LEMMA IInvStep == IInv /\ [Next]_vars => IInv'
<1>1. SUFFICES ASSUME IInv, [Next]_vars PROVE IInv'
  OBVIOUS
<1>2. TypeOK /\ Rest /\ RunsKnowTheirClaim
  BY <1>1 DEF IInv, Rest, RunsInv
<1>3. TypeOK' /\ Rest'
  BY <1>1, <1>2, TypeStep, RestStep
<1> QED
  BY <1>3 DEF IInv, Rest, RunsInv

\* IInv is an inductive invariant.
THEOREM Invariant == Spec => []IInv
BY InitIInv, IInvStep, PTL DEF Spec

\* The variables keep their types.
THEOREM TypeCorrect == Spec => []TypeOK
BY Invariant, PTL DEF IInv

\* A source never has a log row left "running" behind a newer claim.
THEOREM OneRunning == Spec => []OneRunningLog
BY Invariant, PTL DEF IInv

\* Articles of a source are written in the order of the fences, whatever late
\* workers and repeated messages do.
THEOREM FencedWrites == Spec => []WritesInFenceOrder
BY Invariant, PTL DEF IInv

\* An approved recipe stays due until a run under its activation has ended.
THEOREM ApprovedRunsNext == Spec => []ApprovedRecipeRunsNext
BY Invariant, PTL DEF IInv

\* A step that leaves the reason, the flag and the failures of every row, or
\* gives a row a reason other than "cooldown", keeps ParkedIsFlagged.
LEMMA ParkedFrame ==
    ASSUME ParkedIsFlagged,
           \A s \in Sources : /\ state'[s].reason \in {state[s].reason} \cup (Reasons \ {"cooldown"})
                              /\ state'[s].attention = state[s].attention
                              /\ state'[s].failures = state[s].failures
    PROVE  ParkedIsFlagged'
BY DEF ParkedIsFlagged

LEMMA ParkedRow ==
    ASSUME TypeOK, ParkedIsFlagged, NEW s \in Sources, NEW row,
           state' = [state EXCEPT ![s] = row],
           row.reason \in {state[s].reason} \cup (Reasons \ {"cooldown"}),
           row.attention = state[s].attention,
           row.failures = state[s].failures
    PROVE  ParkedIsFlagged'
<1>1. state'[s] = row /\ \A t \in Sources \ {s} : state'[t] = state[t]
  BY DEF TypeOK
<1> QED
  BY <1>1, ParkedFrame

LEMMA ParkedSettle ==
    ASSUME TypeOK, ParkedIsFlagged, NEW w \in Workers, NEW kind \in Kinds,
           SourceOf(w) \in Sources, Settle(w, kind)
    PROVE  ParkedIsFlagged'
<1> USE ConstantsAssumption
<1>1. PICK s \in Sources : s = SourceOf(w)
  OBVIOUS
<1> DEFINE n == FailuresAfter(state[s].failures, kind)
<1>2. state[s] \in Rows
  BY DEF TypeOK
<1>3. PICK d \in Delays(kind) : state' = [state EXCEPT ![s] = Settled(state[s], d, kind)]
  BY <1>1 DEF Settle
<1>4. /\ state'[s] = Settled(state[s], d, kind)
      /\ \A t \in Sources \ {s} : state'[t] = state[t]
  BY <1>3 DEF TypeOK
<1>5. /\ state'[s].reason = ReasonAfter(kind)
      /\ state'[s].failures = n
      /\ state'[s].attention = AttentionSetBy(state[s].attention, n, kind)
  BY <1>2, <1>4 DEF Settled, Rows
<1>6. kind # "ok" => n > 0
  BY <1>2 DEF FailuresAfter, Rows
<1>7. /\ state'[s].reason = "cooldown" => kind = "blocked"
      /\ kind = "blocked" => state'[s].attention = "blocked"
      /\ kind = "ok" => state'[s].attention = "none"
  BY <1>5 DEF ReasonAfter, AttentionSetBy, Kinds, FailureKinds
<1> QED
  BY <1>4, <1>5, <1>6, <1>7 DEF ParkedIsFlagged

LEMMA ParkedStep == IInv /\ ParkedIsFlagged /\ [Next]_vars => ParkedIsFlagged'
<1>1. SUFFICES ASSUME IInv, ParkedIsFlagged, [Next]_vars PROVE ParkedIsFlagged'
  OBVIOUS
<1>2. TypeOK /\ RunsKnowTheirClaim
  BY <1>1 DEF IInv
<1>3. ASSUME state' = state PROVE ParkedIsFlagged'
  BY <1>1, <1>3 DEF ParkedIsFlagged
<1>4. ASSUME NEW s \in Sources, NEW dueOnly \in BOOLEAN,
             EnsureState(s) \/ Claim(s, dueOnly) \/ Activate(s) \/ Reject(s) \/ RequestNow(s)
      PROVE  ParkedIsFlagged'
  <2>1. state[s] \in Rows
    BY <1>2 DEF TypeOK
  <2>2. CASE EnsureState(s)
    <3>1. ASSUME NEW d,
                 state' = [state EXCEPT ![s] = [@ EXCEPT !.exists = TRUE, !.due = d]]
          PROVE  ParkedIsFlagged'
      BY <1>1, <1>2, <2>1, <3>1, ParkedRow DEF Rows
    <3> QED
      BY <2>2, <3>1 DEF EnsureState
  <2>3. CASE Claim(s, dueOnly)
    <3> DEFINE row == [state[s] EXCEPT !.fence = state[s].fence + 1, !.claim = Len(log) + 1,
                                       !.reason = "claimed", !.lease = Lease]
    <3>1. state' = [state EXCEPT ![s] = row]
      BY <2>3 DEF Claim
    <3>2. row.reason = "claimed" /\ row.attention = state[s].attention
          /\ row.failures = state[s].failures
      BY <2>1 DEF Rows
    <3> HIDE DEF row
    <3> QED
      BY <1>1, <1>2, <3>1, <3>2, ParkedRow DEF Reasons
  <2>4. ASSUME NEW r \in Reasons \ {"cooldown"}, state' = [state EXCEPT ![s] = DueNow(@, r)]
        PROVE  ParkedIsFlagged'
    BY <1>1, <1>2, <2>1, <2>4, ParkedRow DEF DueNow, Rows
  <2>5. CASE Activate(s) \/ Reject(s) \/ RequestNow(s)
    BY <2>4, <2>5 DEF Activate, Reject, RequestNow, Reasons
  <2> QED
    BY <1>4, <2>2, <2>3, <2>5
<1>5. ASSUME NEW s \in Sources, NEW paused \in BOOLEAN, SetPaused(s, paused)
      PROVE  ParkedIsFlagged'
  <2>1. state[s] \in Rows
    BY <1>2 DEF TypeOK
  <2> QED
    BY <1>1, <1>2, <1>5, <2>1, ParkedRow DEF SetPaused, Rows
<1>6. ASSUME NEW w \in Workers, NEW kind \in Kinds, pc[w] # "idle", Settle(w, kind)
      PROVE  ParkedIsFlagged'
  BY <1>1, <1>2, <1>6, SourceType, ParkedSettle DEF RunsKnowTheirClaim
<1>7. ASSUME NEW w \in Workers, MarkStale(w) PROVE ParkedIsFlagged'
  BY <1>1, <1>2, <1>7, ParkedFrame DEF MarkStale, Released, TypeOK, Rows
<1>8. ASSUME NEW w \in Workers, Abandon(w) PROVE ParkedIsFlagged'
  <2>1. run[w].kind \in Kinds
    BY <1>2 DEF TypeOK, Runs
  <2> QED
    BY <1>3, <1>6, <1>8, <2>1 DEF Abandon
<1>9. CASE Tick
  <2>1. ASSUME NEW s \in Sources
        PROVE  /\ state[s] \in Rows
               /\ state'[s] = [state[s] EXCEPT !.due = Less(@), !.lease = Less(@)]
    BY <1>2, <1>9 DEF Tick, TypeOK
  <2>2. ASSUME NEW s \in Sources
        PROVE  /\ state'[s].reason = state[s].reason
               /\ state'[s].attention = state[s].attention
               /\ state'[s].failures = state[s].failures
    BY <2>1 DEF Rows
  <2> QED
    BY <1>1, <2>2, ParkedFrame
<1>10. ASSUME NEW w \in Workers, Execute(w) PROVE ParkedIsFlagged'
  <2>1. Route(w) \/ ReadSource(w) \/ CommitRefused(w) \/ Crash(w)
        \/ (\E kind \in FailureKinds : Fails(w, kind)) => state' = state
    BY DEF Route, ReadSource, CommitRefused, Crash, Fails
  <2> QED
    BY <1>3, <1>6, <1>7, <1>8, <1>10, <2>1 DEF Execute, Commit
<1>11. ASSUME NEW s \in Sources, Admin(s) PROVE ParkedIsFlagged'
  <2>1. \/ state' = state
        \/ Activate(s) \/ Reject(s) \/ RequestNow(s) \/ Claim(s, FALSE)
        \/ \E paused \in BOOLEAN : SetPaused(s, paused)
    BY <1>11 DEF Admin, EditSource, SetPolicy, Retire, ManualClaim
  <2> QED
    BY <1>3, <1>4, <1>5, <2>1
<1> QED
  BY <1>1, <1>3, <1>4, <1>9, <1>10, <1>11 DEF Next, vars, DispatchDue, Start, LoseMessage

\* A source parked for a day is flagged, and only a failing source is flagged.
THEOREM Parked == Spec => []ParkedIsFlagged
<1>1. ASSUME Init PROVE ParkedIsFlagged
  <2>1. \A s \in Sources : state[s].reason = "initial" /\ state[s].attention = "none"
    BY <1>1 DEF Init, NoRow
  <2> QED
    BY <2>1 DEF ParkedIsFlagged
<1> QED
  BY <1>1, Invariant, ParkedStep, PTL DEF Spec

\* What a row says of its source's runs is so.
THEOREM RowsTellTrue == Spec => []RowsTell
BY OneRunning, Parked, PTL DEF RowsTell

----------------------------------------------------------------------------
\* The refinement of CrawlLedger: what its fence and gen are here.
Fences == [s \in Sources |-> state[s].fence]
Gens == [s \in Sources |-> profile[s].gen]

LEMMA LedgerKeepsFences ==
    ASSUME \A s \in Sources : state'[s].fence = state[s].fence
    PROVE  Fences' = Fences
BY DEF Fences

LEMMA LedgerKeepsGens ==
    ASSUME \A s \in Sources : profile'[s].gen = profile[s].gen
    PROVE  Gens' = Gens
BY DEF Gens

\* A step that shows nothing to the ledger.
LEMMA LedgerStutter ==
    ASSUME UNCHANGED <<log, outcome, store>>, Fences' = Fences, Gens' = Gens
    PROVE  UNCHANGED Ledger!vars
BY DEF Ledger!vars, Fences, Gens

\* A settled run fails or commits in the ledger.
LEMMA LedgerSettle ==
    ASSUME IInv, NEW w \in Workers, NEW kind \in Kinds,
           pc[w] # "idle", Holds(w), Settle(w, kind), UNCHANGED <<profile, log>>,
           IF kind = "ok"
           THEN store' = [store EXCEPT ![SourceOf(w)] = Append(@, run[w].claim)]
           ELSE store' = store
    PROVE  Ledger!Next
<1> DEFINE c == run[w].claim
           s == SourceOf(w)
<1>1. /\ c \in DOMAIN log /\ s \in Sources /\ s = log[c].source
      /\ run[w].fence = log[c].fence /\ run[w].gen = log[c].gen
  BY SourceType DEF IInv, RunsKnowTheirClaim, SourceOf
<1>2. state[s].claim = c /\ state[s].fence = log[c].fence /\ profile[s].gen = log[c].gen
  BY <1>1 DEF Holds
<1>3. outcome[c] = "running"
  <2>1. c # NoClaim
    BY <1>1, LogShape DEF IInv, NoClaim
  <2> QED
    BY <1>1, <1>2, <2>1 DEF IInv, ClaimIsOpenRun
<1>4. Fences' = Fences
  <2>1. PICK d \in Delays(kind) : state' = [state EXCEPT ![s] = Settled(state[s], d, kind)]
    BY DEF Settle
  <2>2. state[s] \in Rows /\ Settled(state[s], d, kind).fence = state[s].fence
    BY <1>1 DEF IInv, TypeOK, Settled, Rows
  <2> QED
    BY <1>1, <2>1, <2>2, LedgerKeepsFences DEF IInv, TypeOK
<1>5. Gens' = Gens
  BY LedgerKeepsGens
<1>6. outcome' = [outcome EXCEPT ![c] = OutcomeOf(kind)]
  BY DEF Settle
<1>7. CASE kind = "ok"
  <2>1. Ledger!Commit(c)
    BY <1>1, <1>2, <1>3, <1>4, <1>5, <1>6, <1>7 DEF Ledger!Commit, Fences, Gens, OutcomeOf
  <2> QED
    BY <1>1, <2>1 DEF Ledger!Next
<1>8. CASE kind # "ok"
  <2>1. OutcomeOf(kind) \in {"failed", "blocked", "stale"}
    BY <1>8 DEF OutcomeOf
  <2>2. Ledger!Fail(c)
    BY <1>3, <1>4, <1>5, <1>6, <1>8, <2>1 DEF Ledger!Fail, Fences, Gens
  <2> QED
    BY <1>1, <2>2 DEF Ledger!Next
<1> QED
  BY <1>7, <1>8

\* A claim opens a run in the ledger: the run it takes over from is the only
\* one of the source that may still be running.
LEMMA LedgerOpen ==
    ASSUME IInv, NEW s \in Sources, NEW dueOnly \in BOOLEAN, Claim(s, dueOnly)
    PROVE  Ledger!Next
<1>1. Fences' = [Fences EXCEPT ![s] = Fences[s] + 1]
  BY DEF Claim, Fences, IInv, TypeOK, Rows
<1>2. Gens' = Gens /\ store' = store
  BY LedgerKeepsGens DEF Claim
<1>3. log' = Append(log, [source |-> s, fence |-> Fences[s] + 1, gen |-> Gens[s]])
  BY DEF Claim, Fences, Gens
<1>4. ExpireOld(s) = [i \in DOMAIN outcome |->
                        IF log[i].source = s /\ outcome[i] = "running"
                        THEN "lease_expired" ELSE outcome[i]]
  <2>1. ASSUME NEW i \in DOMAIN outcome
        PROVE  i = state[s].claim /\ outcome[i] = "running"
                   <=> log[i].source = s /\ outcome[i] = "running"
    BY LogShape DEF IInv, ClaimIsOpenRun, OneRunningLog, NoClaim
  <2> QED
    BY <2>1 DEF ExpireOld
<1>5. Ledger!Open(s)
  BY <1>1, <1>2, <1>3, <1>4 DEF Ledger!Open, Claim, Fences, Gens
<1> QED
  BY <1>5 DEF Ledger!Next

LEMMA LedgerStep == IInv /\ [Next]_vars => [Ledger!Next]_(Ledger!vars)
<1>1. SUFFICES ASSUME IInv, [Next]_vars PROVE Ledger!Next \/ UNCHANGED Ledger!vars
  OBVIOUS
<1>2. TypeOK
  BY <1>1 DEF IInv
<1>3. ASSUME UNCHANGED <<profile, state, log, outcome, store>>
      PROVE  UNCHANGED Ledger!vars
  BY <1>3, LedgerStutter DEF Fences, Gens
<1>4. ASSUME NEW s \in Sources, NEW paused \in BOOLEAN,
             EnsureState(s) \/ SetPaused(s, paused) \/ Reject(s) \/ RequestNow(s)
      PROVE  UNCHANGED Ledger!vars
  <2>1. Fences' = Fences
    <3>1. CASE EnsureState(s)
      BY <1>2, <3>1, LedgerKeepsFences DEF EnsureState, TypeOK, Rows
    <3>2. CASE SetPaused(s, paused)
      BY <1>2, <3>2, LedgerKeepsFences DEF SetPaused, TypeOK, Rows
    <3>3. CASE Reject(s)
      BY <1>2, <3>3, LedgerKeepsFences DEF Reject, DueNow, TypeOK, Rows
    <3>4. CASE RequestNow(s)
      BY <1>2, <3>4, LedgerKeepsFences DEF RequestNow, DueNow, TypeOK, Rows
    <3> QED
      BY <1>4, <3>1, <3>2, <3>3, <3>4
  <2>2. UNCHANGED <<profile, log, outcome, store>>
    BY <1>4 DEF EnsureState, SetPaused, Reject, RequestNow
  <2> QED
    BY <2>1, <2>2, LedgerStutter DEF Gens
<1>5. ASSUME NEW s \in Sources, NEW active \in BOOLEAN, NEW inputs \in BOOLEAN,
             EditSource(s, active, inputs)
      PROVE  UNCHANGED Ledger!vars
  BY <1>2, <1>5, LedgerKeepsGens, LedgerStutter DEF EditSource, TypeOK, Profiles, Fences
<1>6. ASSUME NEW s \in Sources, NEW granted \in BOOLEAN, SetPolicy(s, granted)
      PROVE  UNCHANGED Ledger!vars
  BY <1>2, <1>6, LedgerKeepsGens, LedgerStutter DEF SetPolicy, TypeOK, Profiles, Fences
<1>7. ASSUME NEW s \in Sources, Activate(s) \/ Retire(s) PROVE Ledger!Next
  <2>1. Gens' = [Gens EXCEPT ![s] = Gens[s] + 1]
    <3>1. CASE Activate(s)
      BY <1>2, <3>1 DEF Activate, Gens, TypeOK, Profiles
    <3>2. CASE Retire(s)
      BY <1>2, <3>2 DEF Retire, Gens, TypeOK, Profiles
    <3> QED
      BY <1>7, <3>1, <3>2
  <2>2. Fences' = Fences
    <3>1. CASE Activate(s)
      BY <1>2, <3>1, LedgerKeepsFences DEF Activate, DueNow, TypeOK, Rows
    <3>2. CASE Retire(s)
      BY <3>2, LedgerKeepsFences DEF Retire
    <3> QED
      BY <1>7, <3>1, <3>2
  <2>3. UNCHANGED <<log, outcome, store>>
    BY <1>7 DEF Activate, Retire
  <2>4. Ledger!Decide(s)
    BY <2>1, <2>2, <2>3 DEF Ledger!Decide, Fences, Gens
  <2> QED
    BY <2>4 DEF Ledger!Next
<1>8. CASE Tick
  <2>1. Fences' = Fences
    BY <1>2, <1>8, LedgerKeepsFences DEF Tick, TypeOK, Rows
  <2> QED
    BY <1>8, <2>1, LedgerStutter DEF Tick, Gens
<1>9. ASSUME NEW w \in Workers, NEW kind \in Kinds, Commit(w, kind) PROVE Ledger!Next
  BY <1>1, <1>9, LedgerSettle DEF Commit
<1>10. ASSUME NEW w \in Workers, Abandon(w) PROVE Ledger!Next \/ UNCHANGED Ledger!vars
  <2>1. run[w].kind \in Kinds /\ run[w].kind # "ok"
    BY <1>1, <1>2, <1>10 DEF Abandon, IInv, RunsKnowTheirClaim, TypeOK, Runs
  <2> QED
    BY <1>1, <1>3, <1>10, <2>1, LedgerSettle DEF Abandon
<1>11. ASSUME NEW w \in Workers, MarkStale(w) PROVE Ledger!Next \/ UNCHANGED Ledger!vars
  <2> DEFINE c == run[w].claim
  <2>1. c \in DOMAIN log /\ SourceOf(w) \in Sources
    BY <1>1, <1>2, <1>11, SourceType DEF MarkStale, IInv, RunsKnowTheirClaim
  <2>2. Fences' = Fences
    BY <1>2, <1>11, <2>1, LedgerKeepsFences DEF MarkStale, Released, TypeOK, Rows
  <2>3. UNCHANGED <<profile, log, store>> /\ Gens' = Gens
    BY <1>11, LedgerKeepsGens DEF MarkStale
  <2>4. CASE outcome[c] = "running"
    <3>1. outcome' = [outcome EXCEPT ![c] = "stale"]
      BY <1>11, <2>4 DEF MarkStale
    <3>2. Ledger!Fail(c)
      BY <2>2, <2>3, <2>4, <3>1 DEF Ledger!Fail, Fences, Gens
    <3> QED
      BY <2>1, <3>2 DEF Ledger!Next
  <2>5. CASE outcome[c] # "running"
    BY <1>11, <2>2, <2>3, <2>5, LedgerStutter DEF MarkStale
  <2> QED
    BY <2>4, <2>5
<1>12. ASSUME NEW w \in Workers, Execute(w) PROVE Ledger!Next \/ UNCHANGED Ledger!vars
  <2>1. Route(w) \/ ReadSource(w) \/ CommitRefused(w) \/ Crash(w)
        \/ (\E kind \in FailureKinds : Fails(w, kind))
            => UNCHANGED <<profile, state, log, outcome, store>>
    BY DEF Route, ReadSource, CommitRefused, Crash, Fails
  <2> QED
    BY <1>3, <1>9, <1>10, <1>11, <1>12, <2>1 DEF Execute
<1>13. ASSUME NEW s \in Sources, Admin(s) PROVE Ledger!Next \/ UNCHANGED Ledger!vars
  BY <1>1, <1>4, <1>5, <1>6, <1>7, <1>13, LedgerOpen DEF Admin, ManualClaim
<1>14. (\E w \in Workers : \E c \in queue : Start(w, c)) \/ (\E c \in queue : LoseMessage(c))
       \/ UNCHANGED vars => UNCHANGED <<profile, state, log, outcome, store>>
  BY DEF Start, LoseMessage, vars
<1> QED
  BY <1>1, <1>3, <1>4, <1>8, <1>12, <1>13, <1>14, LedgerOpen DEF Next, DispatchDue

\* The crawl runtime keeps the promises of the ledger: a run ends once, and only
\* the newest run of a source, opened under the activation in force, commits.
THEOREM Refinement == Spec => LedgerSpec
<1>1. Init => Ledger!Init
  BY DEF Init, NoRow, Ledger!Init
<1> QED
  BY <1>1, Invariant, LedgerStep, PTL DEF Spec, LedgerSpec, Ledger!Spec

=============================================================================
