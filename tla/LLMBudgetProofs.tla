--------------------------- MODULE LLMBudgetProofs ---------------------------
(***************************************************************************)
(* Proofs about LLMBudget for any workers, routes, prices and bounds: type *)
(* correctness, that a decided row is never changed, that a request never  *)
(* calls again over a settlement that failed, and that what is billed for  *)
(* a day, and what may still be billed, stays within the limit.            *)
(***************************************************************************)
EXTENDS LLMBudget, SetSums, SequenceTheorems, TLAPS

\* A cost in whole units is a natural number.
LEMMA CostType == ASSUME NEW n \in Nat PROVE Cost(n) \in Nat
<1>1. Price * n \in Nat
  BY BudgetConstants
<1>2. \A a \in Nat, b \in Nat \ {0} : a \div b \in Nat
  OBVIOUS
<1>3. Price * n + Unit - 1 \in Nat
  BY <1>1, BudgetConstants
<1> QED
  BY <1>2, <1>3, BudgetConstants DEF Cost
LEMMA AnswerTokens == ASSUME NEW k \in Tokens \cup {-1}, k # -1 PROVE k \in Nat /\ Cost(k) \in Nat
BY CostType, BudgetConstants

\* A settlement keeps a row a row, and closes it or leaves it open for good
\* reason.
LEMMA SettledRow ==
    ASSUME NEW r \in RowType, NEW k \in Tokens \cup {-1}
    PROVE  /\ Settled(r, k) \in RowType
           /\ Settled(r, k).state \in {"settled", "unknown", "overrun"}
           /\ Settled(r, k).state = "unknown" <=> k = -1
<1>1. CASE k = -1
  <2>1. Settled(r, k) = [r EXCEPT !.state = "unknown"]
    BY <1>1 DEF Settled
  <2>2. [r EXCEPT !.state = "unknown"] \in RowType
    BY Zenon DEF RowType, States
  <2> QED
    BY <1>1, <2>1, <2>2 DEF RowType
<1>2. CASE k # -1
  <2>1. k \in Nat /\ Cost(k) \in Nat
    BY <1>2, AnswerTokens
  <2>2. PICK state \in {"settled", "overrun"}, seen \in Tokens \cup {-1} :
           Settled(r, k) = [r EXCEPT !.actual = Cost(k), !.state = state, !.observed = seen]
    BY <1>2 DEF Settled
  <2>3. [r EXCEPT !.actual = Cost(k), !.state = state, !.observed = seen] \in RowType
    BY <2>1, Zenon DEF RowType, States, Closed
  <2> QED
    BY <1>2, <2>2, <2>3 DEF RowType
<1> QED
  BY <1>1, <1>2

----------------------------------------------------------------------------
\* The table.

\* Rows are only added; one that is not reserved is never reserved again, and a
\* closed one stays as it is.
Grows ==
    /\ rows' \in Seq(RowType)
    /\ Len(rows') <= MaxCalls
    /\ DOMAIN rows \subseteq DOMAIN rows'
    /\ \A i \in DOMAIN rows :
          /\ rows[i].state \in Closed => rows'[i] = rows[i]
          /\ rows[i].state = "unknown" => rows'[i].state \in {"unknown", "reconciled"}

LEMMA SameRows == ASSUME TypeOK, rows' = rows PROVE Grows
BY DEF TypeOK, Grows

LEMMA ReserveRow ==
    ASSUME TypeOK, NEW w \in Workers, NEW c \in Configs, Reserve(w, c) PROVE Grows
<1>1. CASE UNCHANGED rows
  BY <1>1, SameRows
<1>2. CASE rows' # rows
  <2> DEFINE limit == run[w].terms[c]
  <2>1. run[w] \in RunType /\ day \in 0 .. MaxDays /\ rows \in Seq(RowType)
    BY DEF TypeOK
  <2>2. limit \in Ceilings \cup {0} /\ limit > 0 /\ Len(rows) < MaxCalls
    BY <1>2, <2>1 DEF Reserve, RunType
  <2>3. limit \in Ceilings /\ Cost(limit) \in Nat
    <3> HIDE DEF limit
    <3>1. limit \in Ceilings /\ limit \in Nat
      BY <2>2, BudgetConstants
    <3> QED
      BY <3>1, CostType
  <2>4. PICK r : /\ r = [config |-> c, day |-> day, limit |-> limit, held |-> Cost(limit),
                         actual |-> 0, observed |-> -1, state |-> "reserved"]
                 /\ rows' = Append(rows, r)
    BY <1>2 DEF Reserve
  <2>5. r \in RowType
    BY <2>1, <2>3, <2>4 DEF RowType, States
  <2>6. /\ rows' \in Seq(RowType) /\ Len(rows') = Len(rows) + 1
        /\ \A i \in 1 .. Len(rows) : rows'[i] = rows[i]
    BY <2>1, <2>4, <2>5, AppendProperties
  <2>7. DOMAIN rows = 1 .. Len(rows) /\ DOMAIN rows' = 1 .. Len(rows) + 1 /\ Len(rows) \in Nat
    BY <2>1, <2>6, LenProperties
  <2> QED
    BY <2>2, <2>6, <2>7, BudgetConstants DEF Grows
<1> QED
  BY <1>1, <1>2

\* One row is replaced by another.
LEMMA OneRow ==
    ASSUME TypeOK, NEW i \in DOMAIN rows, NEW r \in RowType, rows' = [rows EXCEPT ![i] = r],
           rows[i].state \notin Closed,
           rows[i].state = "unknown" => r.state \in {"unknown", "reconciled"}
    PROVE  Grows
<1>1. /\ rows' \in Seq(RowType) /\ Len(rows') = Len(rows) /\ DOMAIN rows' = DOMAIN rows
      /\ rows'[i] = r /\ \A j \in DOMAIN rows : j # i => rows'[j] = rows[j]
  BY ExceptSeq DEF TypeOK
<1> QED
  BY <1>1 DEF TypeOK, Grows

LEMMA SettleRow ==
    ASSUME TypeOK, PermitsAreRows, NEW w \in Workers, Settle(w) PROVE Grows
<1>1. CASE UNCHANGED rows
  BY <1>1, SameRows
<1>2. CASE rows' # rows
  <2>1. run[w].permit \in DOMAIN rows /\ rows[run[w].permit].state = "reserved"
    BY <1>2 DEF Settle, Pending, PermitsAreRows
  <2>2. rows[run[w].permit] \in RowType
    BY <2>1 DEF TypeOK
  <2>3. run[w].answer.tokens \in Tokens \cup {-1}
    BY DEF TypeOK, RunType, Answers
  <2>4. PICK i, r : /\ i = run[w].permit /\ r = Settled(rows[i], run[w].answer.tokens)
                    /\ rows' = [rows EXCEPT ![i] = r]
    BY <1>2 DEF Settle
  <2>5. r \in RowType
    BY <2>2, <2>3, <2>4, SettledRow
  <2> QED
    BY <2>1, <2>4, <2>5, OneRow DEF Closed
<1> QED
  BY <1>1, <1>2

LEMMA ReconcileRow ==
    ASSUME TypeOK, NEW i \in DOMAIN rows, Reconcile(i) PROVE Grows
<1>1. rows[i] \in RowType /\ bill[i] \in Nat
  <2>1. rows \in Seq(RowType) /\ Len(rows) <= MaxCalls /\ bill \in [1 .. MaxCalls -> Nat]
    BY DEF TypeOK
  <2>2. i \in 1 .. Len(rows) /\ Len(rows) \in Nat
    BY <2>1, LenProperties
  <2>3. i \in 1 .. MaxCalls
    BY <2>1, <2>2, BudgetConstants
  <2> QED
    BY <2>1, <2>2, <2>3
<1>2. PICK r : /\ r = [rows[i] EXCEPT !.actual = bill[i], !.state = "reconciled"]
               /\ rows' = [rows EXCEPT ![i] = r]
  BY DEF Reconcile
<1>3. \A s \in RowType, n \in Nat : [s EXCEPT !.actual = n, !.state = "reconciled"] \in RowType
  BY Zenon DEF RowType, States, Closed
<1>4. r \in RowType /\ r.state = "reconciled"
  BY <1>1, <1>2, <1>3 DEF RowType
<1> QED
  BY <1>2, <1>4, OneRow DEF Reconcile

LEMMA TableStep == ASSUME TypeOK, PermitsAreRows, [Next]_vars PROVE Grows
<1>1. ASSUME rows' = rows PROVE Grows
  BY <1>1, SameRows
<1>2. ASSUME NEW w \in Workers, NEW c \in Configs, Reserve(w, c) PROVE Grows
  BY <1>2, ReserveRow
<1>3. ASSUME NEW w \in Workers, Settle(w) PROVE Grows
  BY <1>3, SettleRow
<1>4. ASSUME NEW i \in DOMAIN rows, Reconcile(i) PROVE Grows
  BY <1>4, ReconcileRow
<1> QED
  BY <1>1, <1>2, <1>3, <1>4 DEF Next, vars, Begin, GiveUp, Call, Crash, Review, NextDay
----------------------------------------------------------------------------
\* The types of the other variables.

LEMMA IdleType == Idle \in RunType
<1>1. [c \in Configs |-> 0] \in [Configs -> Ceilings \cup {0}]
  OBVIOUS
<1>2. NoAnswer \in Answers
  BY DEF NoAnswer, Answers
<1>3. NoPermit \in 0 .. MaxCalls
  BY BudgetConstants DEF NoPermit
<1> QED
  BY <1>1, <1>2, <1>3 DEF Idle, RunType

LEMMA GoToType ==
    ASSUME TypeOK, NEW w \in Workers, NEW step \in {"idle", "choosing", "calling", "settling"},
           GoTo(w, step)
    PROVE  pc' \in [Workers -> {"idle", "choosing", "calling", "settling"}]
BY DEF GoTo, TypeOK

LEMMA EndsType ==
    ASSUME TypeOK, NEW w \in Workers, Ends(w)
    PROVE  /\ pc' \in [Workers -> {"idle", "choosing", "calling", "settling"}]
           /\ run' \in [Workers -> RunType]
<1>1. run' = [run EXCEPT ![w] = Idle]
  BY DEF Ends
<1> QED
  BY <1>1, IdleType, GoToType DEF Ends, TypeOK

LEMMA TypeStep == ASSUME TypeOK, PermitsAreRows, [Next]_vars PROVE TypeOK'
<1> USE DEF TypeOK
<1> DEFINE PcType == pc' \in [Workers -> {"idle", "choosing", "calling", "settling"}]
<1>1. Grows
  BY TableStep
<1>2. rows' \in Seq(RowType) /\ Len(rows') <= MaxCalls
  BY <1>1 DEF Grows
<1>3. ASSUME NEW w \in Workers, NEW linked \in BOOLEAN, Begin(w, linked) PROVE TypeOK'
  <2>1. \A r \in RunType, terms \in [Configs -> Ceilings \cup {0}] :
           [r EXCEPT !.terms = terms, !.linked = linked] \in RunType
    BY Zenon DEF RunType
  <2>2. [Idle EXCEPT !.terms = ceiling, !.linked = linked] \in RunType
    BY <2>1, IdleType
  <2>3. run' \in [Workers -> RunType]
    BY <1>3, <2>2 DEF Begin
  <2> QED
    BY <1>2, <1>3, <2>3, GoToType DEF Begin
<1>4. ASSUME NEW w \in Workers, GiveUp(w) \/ Crash(w) PROVE TypeOK'
  BY <1>2, <1>4, EndsType DEF GiveUp, Crash
<1>5. ASSUME NEW w \in Workers, NEW c \in Configs, Reserve(w, c) PROVE TypeOK'
  <2>1. CASE Ends(w)
    BY <1>2, <1>5, <2>1, EndsType DEF Reserve
  <2>2. CASE ~Ends(w)
    <3>1. PICK n, tried : /\ n = Len(rows) + 1 /\ tried = run[w].tried \cup {c}
                          /\ run' = [run EXCEPT ![w] = [@ EXCEPT !.tried = tried, !.permit = n]]
                          /\ Len(rows) < MaxCalls /\ GoTo(w, "calling")
      BY <1>5, <2>2 DEF Reserve
    <3>2. n \in 0 .. MaxCalls
      BY <3>1, LenProperties, BudgetConstants
    <3>3. tried \in SUBSET Configs
      BY <3>1 DEF RunType
    <3>4. \A r \in RunType : [r EXCEPT !.tried = tried, !.permit = n] \in RunType
      BY <3>2, <3>3, Zenon DEF RunType
    <3>5. run' \in [Workers -> RunType]
      BY <3>1, <3>4
    <3> QED
      BY <1>2, <1>5, <3>1, <3>5, GoToType DEF Reserve
  <2> QED
    BY <2>1, <2>2
<1>6. ASSUME NEW w \in Workers, NEW n \in Tokens, Call(w, n) PROVE TypeOK'
  <2>1. PICK error \in BOOLEAN, usage \in BOOLEAN, k \in {n, -1} :
           run' = [run EXCEPT ![w] = [@ EXCEPT !.answer =
                      [tokens |-> k, usage |-> usage, error |-> error]]]
    BY <1>6 DEF Call
  <2>2. [tokens |-> k, usage |-> usage, error |-> error] \in Answers
    BY DEF Answers
  <2>3. \A r \in RunType, a \in Answers : [r EXCEPT !.answer = a] \in RunType
    BY Zenon DEF RunType
  <2>4. run' \in [Workers -> RunType]
    BY <2>1, <2>2, <2>3
  <2>5. Cost(n) \in Nat
    BY CostType, BudgetConstants
  <2>6. bill' \in [1 .. MaxCalls -> Nat]
    BY <1>6, <2>5 DEF Call
  <2> QED
    BY <1>2, <1>6, <2>4, <2>6, GoToType DEF Call
<1>7. ASSUME NEW w \in Workers, Settle(w) PROVE TypeOK'
  <2>1. CASE Ends(w)
    BY <1>2, <1>7, <2>1, EndsType DEF Settle
  <2>2. CASE ~Ends(w)
    <3>1. PICK spent : /\ spent = run[w].spent \cup {run[w].permit}
                       /\ run' = [run EXCEPT ![w] = [@ EXCEPT !.spent = spent,
                                     !.permit = NoPermit, !.answer = NoAnswer]]
                       /\ GoTo(w, "choosing")
      BY <1>7, <2>2 DEF Settle
    <3>2. run[w].permit \in 1 .. Len(rows)
      BY <1>7, LenProperties DEF Settle, PermitsAreRows
    <3>3. run[w].permit \in 1 .. MaxCalls
      BY <3>2, LenProperties, BudgetConstants
    <3>4. spent \in SUBSET (1 .. MaxCalls)
      BY <3>1, <3>3 DEF RunType
    <3>5. NoPermit \in 0 .. MaxCalls /\ NoAnswer \in Answers
      BY BudgetConstants DEF NoPermit, NoAnswer, Answers
    <3>6. \A r \in RunType :
             [r EXCEPT !.spent = spent, !.permit = NoPermit, !.answer = NoAnswer] \in RunType
      BY <3>4, <3>5, Zenon DEF RunType
    <3>7. run' \in [Workers -> RunType]
      BY <3>1, <3>6
    <3> QED
      BY <1>2, <1>7, <3>1, <3>7, GoToType DEF Settle
  <2> QED
    BY <2>1, <2>2
<1>8. ASSUME NEW i \in DOMAIN rows, Reconcile(i) PROVE TypeOK'
  BY <1>2, <1>8 DEF Reconcile
<1>9. ASSUME NEW c \in Configs, NEW limit \in Ceilings \cup {0}, Review(c, limit) PROVE TypeOK'
  BY <1>2, <1>9 DEF Review
<1>10. ASSUME NextDay PROVE TypeOK'
  <2>1. day' \in 0 .. MaxDays
    BY <1>10, BudgetConstants DEF NextDay
  <2> QED
    BY <1>2, <1>10, <2>1 DEF NextDay
<1>11. ASSUME UNCHANGED vars PROVE TypeOK'
  BY <1>11 DEF vars
<1> QED
  BY <1>3, <1>4, <1>5, <1>6, <1>7, <1>8, <1>9, <1>10, <1>11 DEF Next
----------------------------------------------------------------------------
\* What a worker holds.

\* The two invariants of one worker.
Holding(w) ==
    /\ pc[w] \in {"calling", "settling"} => run[w].permit \in DOMAIN rows
    /\ run[w].spent \subseteq DOMAIN rows
    /\ run[w].answer.tokens # -1 => run[w].answer.usage
Clean(w) ==
    \A i \in run[w].spent :
        /\ rows[i].state \notin {"reserved", "overrun"}
        /\ rows[i].state = "unknown" => ~run[w].linked

LEMMA Idles == ASSUME TypeOK, NEW w \in Workers, Ends(w) PROVE Holding(w)' /\ Clean(w)'
<1>1. pc'[w] = "idle" /\ run'[w] = Idle
  BY DEF Ends, GoTo, TypeOK
<1> QED
  BY <1>1 DEF Idle, NoAnswer, Holding, Clean

\* A worker that does nothing keeps both, whatever is done to the table.
LEMMA Waits ==
    ASSUME TypeOK, Grows, NEW w \in Workers, Holding(w), Clean(w),
           pc'[w] = pc[w], run'[w] = run[w]
    PROVE  Holding(w)' /\ Clean(w)'
<1>1. Holding(w)'
  BY DEF Holding, Grows
<1>2. ASSUME NEW i \in run'[w].spent
      PROVE  /\ rows'[i].state \notin {"reserved", "overrun"}
             /\ rows'[i].state = "unknown" => ~run'[w].linked
  <2>1. i \in DOMAIN rows /\ i \in run[w].spent
    BY <1>2 DEF Holding
  <2>2. rows[i].state \in States
    <3>1. rows[i] \in RowType
      BY <2>1 DEF TypeOK
    <3> QED
      BY <3>1 DEF RowType
  <2>3. rows[i].state \in Closed \/ rows[i].state = "unknown"
    BY <2>1, <2>2 DEF Clean, States
  <2> QED
    BY <2>1, <2>3 DEF Clean, Grows, Closed
<1> QED
  BY <1>1, <1>2 DEF Clean

\* A step of worker w leaves the others alone.
LEMMA OthersWait ==
    ASSUME TypeOK, Grows, PermitsAreRows, SettledBeforeNext, NEW w \in Workers,
           NEW p, pc' = [pc EXCEPT ![w] = p], NEW r, run' = [run EXCEPT ![w] = r],
           Holding(w)', Clean(w)'
    PROVE  PermitsAreRows' /\ SettledBeforeNext'
<1>1. ASSUME NEW v \in Workers PROVE Holding(v)' /\ Clean(v)'
  <2>1. CASE v = w
    BY <2>1
  <2>2. CASE v # w
    <3>1. pc'[v] = pc[v] /\ run'[v] = run[v]
      BY <2>2 DEF TypeOK
    <3> QED
      BY <3>1, Waits DEF Holding, Clean, PermitsAreRows, SettledBeforeNext
  <2> QED
    BY <2>1, <2>2
<1> QED
  BY <1>1 DEF Holding, Clean, PermitsAreRows, SettledBeforeNext

LEMMA AllWait ==
    ASSUME TypeOK, Grows, PermitsAreRows, SettledBeforeNext, UNCHANGED <<pc, run>>
    PROVE  PermitsAreRows' /\ SettledBeforeNext'
BY Waits DEF Holding, Clean, PermitsAreRows, SettledBeforeNext

LEMMA EndStep ==
    ASSUME TypeOK, Grows, PermitsAreRows, SettledBeforeNext, NEW w \in Workers, Ends(w)
    PROVE  PermitsAreRows' /\ SettledBeforeNext'
BY Idles, OthersWait DEF Ends, GoTo

LEMMA BeginStep ==
    ASSUME IInv, Grows, NEW w \in Workers, NEW linked \in BOOLEAN, Begin(w, linked)
    PROVE  PermitsAreRows' /\ SettledBeforeNext'
<1>1. PICK r : /\ r = [Idle EXCEPT !.terms = ceiling, !.linked = linked]
               /\ run' = [run EXCEPT ![w] = r] /\ pc' = [pc EXCEPT ![w] = "choosing"]
  BY DEF Begin, GoTo
<1>2. pc'[w] = "choosing" /\ run'[w] = r
  BY <1>1 DEF IInv, TypeOK
<1>3. r.spent = {} /\ r.answer = NoAnswer
  BY <1>1 DEF Idle
<1>4. Holding(w)' /\ Clean(w)'
  BY <1>2, <1>3 DEF Holding, Clean, NoAnswer
<1> QED
  BY <1>1, <1>4, OthersWait DEF IInv

LEMMA ReserveStep ==
    ASSUME IInv, Grows, NEW w \in Workers, NEW c \in Configs, Reserve(w, c)
    PROVE  PermitsAreRows' /\ SettledBeforeNext'
<1>1. CASE Ends(w)
  BY <1>1, EndStep DEF IInv
<1>2. CASE ~Ends(w)
  <2>1. PICK r, row : /\ r = [run[w] EXCEPT !.tried = run[w].tried \cup {c},
                                            !.permit = Len(rows) + 1]
                      /\ run' = [run EXCEPT ![w] = r] /\ pc' = [pc EXCEPT ![w] = "calling"]
                      /\ rows' = Append(rows, row)
    BY <1>2 DEF Reserve, GoTo
  <2>2. pc'[w] = "calling" /\ run'[w] = r /\ run[w] \in RunType /\ rows \in Seq(RowType)
    BY <2>1 DEF IInv, TypeOK
  <2>3. /\ r.spent = run[w].spent /\ r.answer = run[w].answer /\ r.linked = run[w].linked
        /\ r.permit = Len(rows) + 1
    BY <2>1, <2>2 DEF RunType
  <2>4. rows' \in Seq(RowType) /\ Len(rows') = Len(rows) + 1
    BY <2>1, <2>2 DEF Grows
  <2>5. Len(rows) + 1 \in DOMAIN rows'
    BY <2>2, <2>4, LenProperties
  <2>6. /\ \A i \in run[w].spent : rows'[i] = rows[i]
        /\ run[w].spent \subseteq DOMAIN rows'
    <3>1. \A i \in 1 .. Len(rows) : rows'[i] = rows[i]
      BY <2>1, <2>2
    <3> QED
      BY <2>2, <3>1, LenProperties DEF IInv, PermitsAreRows, Grows
  <2>7. Holding(w)' /\ Clean(w)'
    BY <2>2, <2>3, <2>5, <2>6 DEF Holding, Clean, IInv, PermitsAreRows, SettledBeforeNext
  <2> QED
    BY <2>1, <2>7, OthersWait DEF IInv
<1> QED
  BY <1>1, <1>2

LEMMA CallStep ==
    ASSUME IInv, Grows, NEW w \in Workers, NEW n \in Tokens, Call(w, n)
    PROVE  PermitsAreRows' /\ SettledBeforeNext'
<1>1. PICK error \in BOOLEAN : \E usage \in {TRUE, ~error} :
         \E k \in IF usage THEN {n, -1} ELSE {-1} :
            run' = [run EXCEPT ![w] = [@ EXCEPT !.answer =
                       [tokens |-> k, usage |-> usage, error |-> error]]]
  BY DEF Call
<1>2. PICK usage, k, r :
         /\ usage \in BOOLEAN /\ (k # -1 => usage)
         /\ r = [run[w] EXCEPT !.answer = [tokens |-> k, usage |-> usage, error |-> error]]
         /\ run' = [run EXCEPT ![w] = r]
  BY <1>1
<1>3. pc' = [pc EXCEPT ![w] = "settling"] /\ pc[w] = "calling" /\ rows' = rows
  BY DEF Call, GoTo
<1>4. pc'[w] = "settling" /\ run'[w] = r /\ run[w] \in RunType
  BY <1>2, <1>3 DEF IInv, TypeOK
<1>5. /\ r.spent = run[w].spent /\ r.linked = run[w].linked /\ r.permit = run[w].permit
      /\ r.answer.tokens = k /\ r.answer.usage = usage
  BY <1>2, <1>4 DEF RunType
<1>6. Holding(w)' /\ Clean(w)'
  BY <1>2, <1>3, <1>4, <1>5 DEF Holding, Clean, IInv, PermitsAreRows, SettledBeforeNext
<1> QED
  BY <1>2, <1>3, <1>6, OthersWait DEF IInv

LEMMA SettleStep ==
    ASSUME IInv, Grows, NEW w \in Workers, Settle(w)
    PROVE  PermitsAreRows' /\ SettledBeforeNext'
<1>1. CASE Ends(w)
  BY <1>1, EndStep DEF IInv
<1>2. CASE ~Ends(w)
  <2>1. PICK i, k, new, r :
           /\ i = run[w].permit /\ k = run[w].answer.tokens /\ new = Settled(rows[i], k)
           /\ rows' = [rows EXCEPT ![i] = new]
           /\ ~Aborts(w, new.state = "settled")
           /\ r = [run[w] EXCEPT !.spent = run[w].spent \cup {i}, !.permit = NoPermit,
                                 !.answer = NoAnswer]
           /\ run' = [run EXCEPT ![w] = r] /\ pc' = [pc EXCEPT ![w] = "choosing"]
           /\ rows[i].state = "reserved" /\ pc[w] = "settling"
    <3> DEFINE row == rows[run[w].permit]
               next == Settled(row, run[w].answer.tokens)
               held == [run[w] EXCEPT !.spent = run[w].spent \cup {run[w].permit},
                           !.permit = NoPermit, !.answer = NoAnswer]
    <3>1. /\ rows' = [rows EXCEPT ![run[w].permit] = next]
          /\ row.state = "reserved" /\ pc[w] = "settling"
      BY <1>2 DEF Settle, Pending
    <3>2. ~Aborts(w, next.state = "settled") /\ pc' = [pc EXCEPT ![w] = "choosing"]
      BY <1>2 DEF Settle, GoTo
    <3>3. run' = [run EXCEPT ![w] = held]
      BY <1>2 DEF Settle
    <3> QED
      BY <3>1, <3>2, <3>3, Zenon
  <2>2. pc'[w] = "choosing" /\ run'[w] = r /\ run[w] \in RunType /\ rows \in Seq(RowType)
    BY <2>1 DEF IInv, TypeOK
  <2>3. r.spent = run[w].spent \cup {i} /\ r.linked = run[w].linked /\ r.answer = NoAnswer
    BY <2>1, <2>2 DEF RunType
  <2>4. i \in DOMAIN rows /\ rows[i] \in RowType /\ k \in Tokens \cup {-1}
    BY <2>1, <2>2 DEF IInv, PermitsAreRows, RunType, Answers
  <2>5. new \in RowType /\ new.state \in {"settled", "unknown", "overrun"}
        /\ (new.state = "unknown" <=> k = -1)
    BY <2>1, <2>4, SettledRow
  <2>6. new.state # "settled" => ~run[w].answer.usage /\ ~run[w].linked
    BY <2>1 DEF Aborts
  <2>7. k # -1 => run[w].answer.usage
    BY <2>1 DEF IInv, PermitsAreRows
  <2>8. new.state \notin {"reserved", "overrun"} /\ (new.state = "unknown" => ~run[w].linked)
    BY <2>5, <2>6, <2>7
  <2>9. DOMAIN rows' = DOMAIN rows /\ rows'[i] = new
        /\ \A j \in DOMAIN rows : j # i => rows'[j] = rows[j]
    BY <2>1, <2>2, <2>4
  <2>10. Holding(w)'
    BY <2>2, <2>3, <2>4, <2>9 DEF Holding, NoAnswer, IInv, PermitsAreRows
  <2>11. Clean(w)'
    BY <2>2, <2>3, <2>8, <2>9 DEF Clean, IInv, PermitsAreRows, SettledBeforeNext
  <2> QED
    BY <2>1, <2>10, <2>11, OthersWait DEF IInv
<1> QED
  BY <1>1, <1>2

----------------------------------------------------------------------------

LEMMA InitIInv == Init => IInv
<1>1. SUFFICES ASSUME Init PROVE IInv
  OBVIOUS
<1>2. rows \in Seq(RowType) /\ Len(rows) = 0 /\ DOMAIN rows = {}
  BY <1>1, EmptySeq DEF Init
<1>3. TypeOK
  <2>1. bill \in [1 .. MaxCalls -> Nat] /\ 0 \in 0 .. MaxDays
    BY <1>1, BudgetConstants DEF Init
  <2>2. legacy \in [cost: Nat, unpriced: BOOLEAN]
    BY <1>1, BudgetConstants DEF Init
  <2>3. run \in [Workers -> RunType]
    BY <1>1, IdleType DEF Init
  <2> QED
    BY <1>1, <1>2, <2>1, <2>2, <2>3, BudgetConstants DEF Init, TypeOK
<1>4. PermitsAreRows /\ SettledBeforeNext
  BY <1>1 DEF Init, Idle, NoAnswer, PermitsAreRows, SettledBeforeNext
<1> QED
  BY <1>3, <1>4 DEF IInv

LEMMA IInvStep == IInv /\ [Next]_vars => IInv'
<1>1. SUFFICES ASSUME IInv, [Next]_vars PROVE IInv'
  OBVIOUS
<1>2. Grows /\ TypeOK'
  BY <1>1, TableStep, TypeStep DEF IInv
<1> DEFINE Goal == PermitsAreRows' /\ SettledBeforeNext'
<1>3. ASSUME NEW w \in Workers, NEW linked \in BOOLEAN, Begin(w, linked) PROVE Goal
  BY <1>1, <1>2, <1>3, BeginStep
<1>4. ASSUME NEW w \in Workers, GiveUp(w) \/ Crash(w) PROVE Goal
  BY <1>1, <1>2, <1>4, EndStep DEF GiveUp, Crash, IInv
<1>5. ASSUME NEW w \in Workers, NEW c \in Configs, Reserve(w, c) PROVE Goal
  BY <1>1, <1>2, <1>5, ReserveStep
<1>6. ASSUME NEW w \in Workers, NEW n \in Tokens, Call(w, n) PROVE Goal
  BY <1>1, <1>2, <1>6, CallStep
<1>7. ASSUME NEW w \in Workers, Settle(w) PROVE Goal
  BY <1>1, <1>2, <1>7, SettleStep
<1>8. ASSUME UNCHANGED <<pc, run>> PROVE Goal
  BY <1>1, <1>2, <1>8, AllWait DEF IInv
<1>9. Goal
  BY <1>1, <1>3, <1>4, <1>5, <1>6, <1>7, <1>8 DEF Next, vars, Reconcile, Review, NextDay
<1> QED
  BY <1>2, <1>9 DEF IInv

\* IInv is an inductive invariant of the account and its requests.
THEOREM Invariant == Spec => []IInv
BY InitIInv, IInvStep, PTL DEF Spec

\* The variables keep their types: every amount is a natural number.
THEOREM TypeCorrect == Spec => []TypeOK
BY Invariant, PTL DEF IInv

\* A request never calls again over a settlement that failed.
THEOREM NoCallOverFailure == Spec => []SettledBeforeNext
BY Invariant, PTL DEF IInv

LEMMA KeepsDecidedStep == IInv /\ [Next]_vars => [KeepsDecided]_vars
<1>1. SUFFICES ASSUME IInv, [Next]_vars PROVE KeepsDecided \/ UNCHANGED vars
  OBVIOUS
<1>2. Grows
  BY <1>1, TableStep DEF IInv
<1> QED
  BY <1>2 DEF Grows, KeepsDecided

\* A settled or reconciled row is not changed again.
THEOREM Decided == Spec => DecidedForGood
BY KeepsDecidedStep, Invariant, PTL DEF Spec, DecidedForGood

----------------------------------------------------------------------------
\* Sums over the table.  All are of a table, bills and a day that are given, so
\* that a step can be told by what they were and what they are.

Charged(table) == [i \in DOMAIN table |-> Charge(table[i])]
Kept(bills, table, S) == \A i \in S : bills[i] <= table[i].held
OfDay(table, d) == {i \in DOMAIN table : table[i].day = d}
Counted(table, today) ==
    {i \in DOMAIN table : table[i].day = today \/ table[i].state \notin Closed}

\* What was admitted on a day is charged within the limit, and so is all that
\* counts today, if the supplier keeps to the terms.
DayCovered(table, bills, d) ==
    Kept(bills, table, OfDay(table, d)) => SumOver(Charged(table), OfDay(table, d)) <= Limit
AllCovered(table, bills, today) ==
    Kept(bills, table, DOMAIN table) => SumOver(Charged(table), Counted(table, today)) <= Limit
Covered ==
    Limit # 0 => /\ AllCovered(rows, bill, day)
                 /\ \A d \in 0 .. day : DayCovered(rows, bill, d)

\* A call has one worker, which knows what is billed for it; a row that is closed
\* holds its bill.
Paying(w) == pc[w] \in {"calling", "settling"}
OnePayer ==
    \A v, w \in Workers : Paying(v) /\ Paying(w) /\ run[v].permit = run[w].permit => v = w
PayersKnow ==
    \A w \in Workers :
        /\ pc[w] = "calling" => rows[run[w].permit].state = "reserved" /\ bill[run[w].permit] = 0
        /\ pc[w] = "settling" /\ run[w].answer.tokens # -1 =>
              bill[run[w].permit] = Cost(run[w].answer.tokens)
RowsTell ==
    /\ \A i \in DOMAIN rows : rows[i].day <= day /\ (rows[i].state \in Closed => rows[i].actual = bill[i])
    /\ \A i \in 1 .. MaxCalls : i > Len(rows) => bill[i] = 0

AccountInv == IInv /\ OnePayer /\ PayersKnow /\ RowsTell /\ Covered

\* Tables are finite, and their amounts are numbers.
LEMMA TableFacts ==
    ASSUME NEW table \in Seq(RowType)
    PROVE  /\ DOMAIN table = 1 .. Len(table) /\ Len(table) \in Nat
           /\ IsFiniteSet(DOMAIN table)
           /\ \A S \in SUBSET DOMAIN table : IsFiniteSet(S)
           /\ \A i \in DOMAIN table : /\ table[i] \in RowType
                                      /\ table[i].held \in Nat /\ table[i].actual \in Nat
                                      /\ table[i].day \in Nat
                                      /\ Charged(table)[i] = Charge(table[i])
                                      /\ Charged(table)[i] \in Nat
<1>1. DOMAIN table = 1 .. Len(table) /\ Len(table) \in Nat
  BY LenProperties
<1>2. IsFiniteSet(1 .. Len(table))
  BY <1>1, FS_Interval
<1>3. IsFiniteSet(DOMAIN table)
  BY <1>1, <1>2
<1>4. \A S \in SUBSET DOMAIN table : IsFiniteSet(S)
  BY <1>3, FS_Subset
<1>5. \A i \in DOMAIN table : table[i] \in RowType
  BY <1>1, ElementOfSeq
<1>6. \A r \in RowType : r.held \in Nat /\ r.actual \in Nat /\ r.day \in Nat
  BY BudgetConstants DEF RowType
<1> QED
  BY <1>1, <1>3, <1>4, <1>5, <1>6 DEF Charged, Charge

\* The sums of the model are these.
LEMMA ChargesAre == ASSUME TypeOK PROVE Charges = SumOver(Charged(rows), Counted(rows, day))
<1> DEFINE S == {i \in DOMAIN rows : Counts(rows[i])}
           f == Charged(rows)
           h == CHOOSE g : g = [s \in SUBSET S |->
                    IF s = {} THEN 0 ELSE Charge(rows[Pick(s)]) + g[s \ {Pick(s)}]]
<1>1. S = Counted(rows, day) /\ S \in SUBSET DOMAIN rows
  BY DEF Counts, Counted
<1>2. IsFiniteSet(S)
  BY <1>1, TableFacts DEF TypeOK
<1>3. Charges = h[S]
  BY DEF Charges, MapThenSumSet, MapThenFoldSet, Pick
<1>4. \A s \in SUBSET S : s # {} => f[Pick(s)] = Charge(rows[Pick(s)])
  BY PickIn DEF Charged
<1> HIDE DEF f, S
<1>5. \A g : IsSums(g, f, S) <=>
        g = [s \in SUBSET S |-> IF s = {} THEN 0 ELSE Charge(rows[Pick(s)]) + g[s \ {Pick(s)}]]
  BY <1>4 DEF IsSums
<1>6. IsSums(h, f, S)
  BY <1>2, <1>5, SumsExist
<1> HIDE DEF h
<1>7. SumOver(f, S) = h[S]
  BY <1>2, <1>6, SumFrom
<1> QED
  BY <1>1, <1>3, <1>7 DEF f

LEMMA HoldsAre ==
    ASSUME TypeOK
    PROVE  /\ MapThenSumSet(LAMBDA i : rows[i].held, Open) = SumOver(Charged(rows), Open)
           /\ MapThenSumSet(LAMBDA i : rows[i].actual, Today \ Open) = SumOver(Charged(rows), Today \ Open)
<1> DEFINE S == Open
           T == Today \ Open
           f == Charged(rows)
           h == CHOOSE g : g = [s \in SUBSET S |->
                    IF s = {} THEN 0 ELSE rows[Pick(s)].held + g[s \ {Pick(s)}]]
           k == CHOOSE g : g = [s \in SUBSET T |->
                    IF s = {} THEN 0 ELSE rows[Pick(s)].actual + g[s \ {Pick(s)}]]
<1>1. S \in SUBSET DOMAIN rows /\ T \in SUBSET DOMAIN rows
  BY DEF Open, Today
<1>2. IsFiniteSet(S) /\ IsFiniteSet(T)
  BY <1>1, TableFacts DEF TypeOK
<1>3. /\ MapThenSumSet(LAMBDA i : rows[i].held, S) = h[S]
      /\ MapThenSumSet(LAMBDA i : rows[i].actual, T) = k[T]
  BY DEF MapThenSumSet, MapThenFoldSet, Pick
<1>4. /\ \A s \in SUBSET S : s # {} => f[Pick(s)] = rows[Pick(s)].held
      /\ \A s \in SUBSET T : s # {} => f[Pick(s)] = rows[Pick(s)].actual
  BY PickIn DEF Charged, Charge, Open, Today
<1> HIDE DEF f, S, T
<1>5. /\ \A g : IsSums(g, f, S) <=>
            g = [s \in SUBSET S |-> IF s = {} THEN 0 ELSE rows[Pick(s)].held + g[s \ {Pick(s)}]]
      /\ \A g : IsSums(g, f, T) <=>
            g = [s \in SUBSET T |-> IF s = {} THEN 0 ELSE rows[Pick(s)].actual + g[s \ {Pick(s)}]]
  BY <1>4 DEF IsSums
<1>6. IsSums(h, f, S) /\ IsSums(k, f, T)
  BY <1>2, <1>5, SumsExist
<1> HIDE DEF h, k
<1>7. SumOver(f, S) = h[S] /\ SumOver(f, T) = k[T]
  BY <1>2, <1>6, SumFrom
<1>8. /\ MapThenSumSet(LAMBDA i : rows[i].held, S) = SumOver(f, S)
      /\ MapThenSumSet(LAMBDA i : rows[i].actual, T) = SumOver(f, T)
  BY <1>3, <1>7
<1> QED
  BY <1>8 DEF f, S, T

----------------------------------------------------------------------------
\* What a step does to the account.

\* A new day may begin.
Rests == rows' = rows /\ bill' = bill /\ day' \in {day, day + 1}

\* A hold is admitted.
Admitted(r) ==
    /\ r \in RowType
    /\ r.day = day /\ r.state = "reserved"
    /\ Limit = 0 \/ Charges + r.held <= Limit
    /\ rows' = Append(rows, r) /\ Len(rows) < MaxCalls
    /\ bill' = bill /\ day' = day

\* A call is billed that was not billed.
Billed(k) ==
    /\ rows[k].state = "reserved" /\ bill[k] = 0
    /\ \E n \in Nat : bill' = [bill EXCEPT ![k] = n]
    /\ rows' = rows /\ day' = day

\* An open row is settled, or the operator decides.
Decides(i, r) ==
    /\ r \in RowType
    /\ rows[i].state \notin Closed
    /\ r.day = rows[i].day /\ r.held = rows[i].held
    /\ r.state \in Closed => r.actual = bill[i]
    /\ rows' = [rows EXCEPT ![i] = r]
    /\ bill' = bill /\ day' = day

AccountStep ==
    \/ Rests
    \/ \E r : Admitted(r)
    \/ \E k \in DOMAIN rows : Billed(k)
    \/ \E i \in DOMAIN rows : \E r : Decides(i, r)

LEMMA ReserveAdmits ==
    ASSUME TypeOK, NEW w \in Workers, NEW c \in Configs, Reserve(w, c), rows' # rows
    PROVE  \E r : Admitted(r)
<1> DEFINE limit == run[w].terms[c]
<1>1. run[w] \in RunType /\ day \in 0 .. MaxDays /\ rows \in Seq(RowType)
  BY DEF TypeOK
<1>2. limit \in Ceilings \cup {0} /\ limit > 0 /\ Len(rows) < MaxCalls /\ Admits(c, limit)
  BY <1>1 DEF Reserve, RunType
<1>3. limit \in Ceilings /\ Cost(limit) \in Nat
  <2> HIDE DEF limit
  <2>1. limit \in Ceilings /\ limit \in Nat
    BY <1>2, BudgetConstants
  <2> QED
    BY <2>1, CostType
<1>4. PICK r : /\ r = [config |-> c, day |-> day, limit |-> limit, held |-> Cost(limit),
                       actual |-> 0, observed |-> -1, state |-> "reserved"]
               /\ rows' = Append(rows, r)
  BY DEF Reserve
<1>5. r \in RowType /\ r.day = day /\ r.state = "reserved" /\ r.held = Cost(limit)
  BY <1>1, <1>3, <1>4 DEF RowType, States
<1>6. legacy.cost \in Nat /\ Charges \in Nat
  <2>1. Counted(rows, day) \in SUBSET DOMAIN rows
    BY DEF Counted
  <2>2. SumOver(Charged(rows), Counted(rows, day)) \in Nat
    BY <1>1, <2>1, TableFacts, SumType
  <2> QED
    BY <2>2, ChargesAre DEF TypeOK
<1>7. Limit = 0 \/ legacy.cost + Charges + Cost(limit) <= Limit
  BY <1>2 DEF Admits
<1>8. Limit = 0 \/ Charges + r.held <= Limit
  <2> HIDE DEF limit
  <2> QED
    BY <1>3, <1>5, <1>6, <1>7, BudgetConstants
<1>9. bill' = bill /\ day' = day
  BY DEF Reserve
<1> QED
  BY <1>2, <1>4, <1>5, <1>8, <1>9 DEF Admitted

LEMMA ReserveAccount ==
    ASSUME TypeOK, NEW w \in Workers, NEW c \in Configs, Reserve(w, c)
    PROVE  AccountStep
<1>1. UNCHANGED rows => AccountStep
  BY DEF Reserve, AccountStep, Rests
<1> QED
  BY <1>1, ReserveAdmits DEF AccountStep

LEMMA CallAccount ==
    ASSUME TypeOK, PermitsAreRows, PayersKnow, NEW w \in Workers, NEW n \in Tokens, Call(w, n)
    PROVE  Billed(run[w].permit) /\ run[w].permit \in DOMAIN rows
<1>1. Cost(n) \in Nat
  BY CostType, BudgetConstants
<1> QED
  BY <1>1 DEF Call, PermitsAreRows, PayersKnow, Billed

LEMMA SettleAccount ==
    ASSUME TypeOK, PermitsAreRows, PayersKnow, NEW w \in Workers, Settle(w)
    PROVE  Rests \/ (run[w].permit \in DOMAIN rows /\ \E r : Decides(run[w].permit, r))
<1>1. CASE UNCHANGED rows
  BY <1>1 DEF Settle, Rests
<1>2. CASE rows' # rows
  <2> DEFINE k == run[w].answer.tokens
  <2>1. run[w].permit \in DOMAIN rows /\ rows[run[w].permit].state = "reserved" /\ pc[w] = "settling"
    BY <1>2 DEF Settle, Pending, PermitsAreRows
  <2>2. rows[run[w].permit] \in RowType
    BY <2>1 DEF TypeOK
  <2>3. k \in Tokens \cup {-1}
    BY DEF TypeOK, RunType, Answers
  <2>4. PICK i, r : /\ i = run[w].permit /\ r = Settled(rows[i], k)
                    /\ rows' = [rows EXCEPT ![i] = r]
    BY <1>2 DEF Settle
  <2>5. r \in RowType
    BY <2>2, <2>3, <2>4, SettledRow
  <2>6. r.day = rows[i].day /\ r.held = rows[i].held
    BY <2>2, <2>4 DEF Settled, RowType
  <2>7. r.state \in Closed => r.actual = Cost(k) /\ k # -1
    BY <2>2, <2>4 DEF Settled, RowType, Closed
  <2>8. r.state \in Closed => r.actual = bill[i]
    BY <2>1, <2>4, <2>7 DEF PayersKnow
  <2>9. bill' = bill /\ day' = day
    BY DEF Settle
  <2>10. rows[i].state \notin Closed
    BY <2>1, <2>4 DEF Closed
  <2>11. Decides(i, r)
    BY <2>4, <2>5, <2>6, <2>8, <2>9, <2>10 DEF Decides
  <2> QED
    BY <2>1, <2>4, <2>11
<1> QED
  BY <1>1, <1>2

LEMMA ReconcileAccount ==
    ASSUME TypeOK, NEW i \in DOMAIN rows, Reconcile(i)
    PROVE  \E r : Decides(i, r)
<1>1. rows[i] \in RowType /\ bill[i] \in Nat
  <2>1. i \in 1 .. MaxCalls
    BY TableFacts, BudgetConstants DEF TypeOK
  <2> QED
    BY <2>1 DEF TypeOK
<1>2. PICK r : /\ r = [rows[i] EXCEPT !.actual = bill[i], !.state = "reconciled"]
               /\ rows' = [rows EXCEPT ![i] = r]
  BY DEF Reconcile
<1>3. \A s \in RowType, n \in Nat : [s EXCEPT !.actual = n, !.state = "reconciled"] \in RowType
  BY Zenon DEF RowType, States, Closed
<1>4. r \in RowType
  BY <1>1, <1>2, <1>3
<1>5. r.actual = bill[i] /\ r.day = rows[i].day /\ r.held = rows[i].held
  BY <1>1, <1>2 DEF RowType
<1> QED
  BY <1>2, <1>4, <1>5 DEF Reconcile, Decides

LEMMA AccountSteps ==
    ASSUME TypeOK, PermitsAreRows, PayersKnow, [Next]_vars
    PROVE  AccountStep
<1>1. ASSUME NEW w \in Workers, NEW c \in Configs, Reserve(w, c) PROVE AccountStep
  BY <1>1, ReserveAccount
<1>2. ASSUME NEW w \in Workers, NEW n \in Tokens, Call(w, n) PROVE AccountStep
  BY <1>2, CallAccount DEF AccountStep
<1>3. ASSUME NEW w \in Workers, Settle(w) PROVE AccountStep
  BY <1>3, SettleAccount DEF AccountStep
<1>4. ASSUME NEW i \in DOMAIN rows, Reconcile(i) PROVE AccountStep
  BY <1>4, ReconcileAccount DEF AccountStep
<1>5. UNCHANGED <<rows, bill>> /\ day' \in {day, day + 1} => AccountStep
  BY DEF AccountStep, Rests
<1> QED
  BY <1>1, <1>2, <1>3, <1>4, <1>5 DEF Next, vars, Begin, GiveUp, Crash, Review, NextDay

LEMMA AppendRow ==
    ASSUME TypeOK, NEW r, Admitted(r)
    PROVE  /\ Len(rows) + 1 \notin DOMAIN rows /\ Len(rows) + 1 \in 1 .. MaxCalls
           /\ DOMAIN rows' = DOMAIN rows \cup {Len(rows) + 1}
           /\ Len(rows') = Len(rows) + 1
           /\ rows'[Len(rows) + 1] = r
           /\ \A i \in DOMAIN rows : rows'[i] = rows[i]
<1>1. rows \in Seq(RowType) /\ r \in RowType /\ rows' = Append(rows, r) /\ Len(rows) < MaxCalls
  BY DEF TypeOK, Admitted
<1>2. /\ rows' \in Seq(RowType) /\ Len(rows') = Len(rows) + 1
      /\ \A i \in 1 .. Len(rows) : rows'[i] = rows[i]
      /\ rows'[Len(rows) + 1] = r
  BY <1>1, AppendProperties
<1>3. DOMAIN rows = 1 .. Len(rows) /\ DOMAIN rows' = 1 .. Len(rows) + 1 /\ Len(rows) \in Nat
  BY <1>1, <1>2, LenProperties
<1> QED
  BY <1>1, <1>2, <1>3, BudgetConstants

LEMMA DecideRow ==
    ASSUME TypeOK, NEW i \in DOMAIN rows, NEW r, Decides(i, r)
    PROVE  /\ DOMAIN rows' = DOMAIN rows /\ Len(rows') = Len(rows)
           /\ rows'[i] = r /\ \A j \in DOMAIN rows : j # i => rows'[j] = rows[j]
BY ExceptSeq DEF TypeOK, Decides

LEMMA RowsTold ==
    ASSUME TypeOK, RowsTell, AccountStep
    PROVE  RowsTell'
<1>1. /\ DOMAIN rows \subseteq 1 .. MaxCalls /\ DOMAIN rows = 1 .. Len(rows) /\ Len(rows) \in Nat
      /\ day \in Nat /\ \A i \in DOMAIN rows : rows[i].day \in Nat
      /\ bill \in [1 .. MaxCalls -> Nat]
  BY TableFacts, BudgetConstants DEF TypeOK
<1>2. CASE Rests
  BY <1>1, <1>2 DEF Rests, RowsTell
<1>3. ASSUME NEW r, Admitted(r) PROVE RowsTell'
  <2>1. r.state \notin Closed /\ r.day = day
    BY <1>3 DEF Admitted, Closed
  <2>2. day' = day /\ bill' = bill
    BY <1>3 DEF Admitted
  <2> QED
    BY <1>1, <1>3, <2>1, <2>2, AppendRow DEF RowsTell
<1>4. ASSUME NEW k \in DOMAIN rows, Billed(k) PROVE RowsTell'
  <2>1. \A i \in 1 .. MaxCalls : i # k => bill'[i] = bill[i]
    BY <1>1, <1>4 DEF Billed
  <2>2. rows' = rows /\ day' = day /\ rows[k].state \notin Closed
    BY <1>4 DEF Billed, Closed
  <2> QED
    BY <1>1, <2>1, <2>2 DEF RowsTell
<1>5. ASSUME NEW i \in DOMAIN rows, NEW r, Decides(i, r) PROVE RowsTell'
  <2>1. day' = day /\ bill' = bill /\ r.day = rows[i].day /\ (r.state \in Closed => r.actual = bill[i])
    BY <1>5 DEF Decides
  <2> QED
    BY <1>1, <1>5, <2>1, DecideRow DEF RowsTell
<1> QED
  BY <1>2, <1>3, <1>4, <1>5 DEF AccountStep

Elsewhere(w) == \A v \in Workers \ {w} : pc'[v] = pc[v] /\ run'[v] = run[v]

\* A worker that no longer pays leaves the others as they are.
LEMMA StopsPaying ==
    ASSUME OnePayer, PayersKnow, NEW w \in Workers, Elsewhere(w), ~Paying(w)', bill' = bill,
           \A v \in Workers \ {w} : pc[v] = "calling" =>
               rows'[run[v].permit] = rows[run[v].permit]
    PROVE  OnePayer' /\ PayersKnow'
BY DEF OnePayer, PayersKnow, Elsewhere, Paying

LEMMA PayersKept ==
    ASSUME IInv, OnePayer, PayersKnow, RowsTell, [Next]_vars
    PROVE  OnePayer' /\ PayersKnow'
<1>1. /\ TypeOK /\ PermitsAreRows
      /\ pc \in [Workers -> {"idle", "choosing", "calling", "settling"}] /\ run \in [Workers -> RunType]
      /\ bill \in [1 .. MaxCalls -> Nat]
  BY DEF IInv, TypeOK
<1>2. ASSUME NEW w \in Workers, Ends(w) PROVE Elsewhere(w) /\ ~Paying(w)'
  BY <1>1, <1>2 DEF Ends, GoTo, Elsewhere, Paying
<1>3. ASSUME NEW w \in Workers, GiveUp(w) \/ Crash(w) PROVE OnePayer' /\ PayersKnow'
  BY <1>2, <1>3, StopsPaying DEF GiveUp, Crash
<1>4. ASSUME NEW w \in Workers, NEW linked \in BOOLEAN, Begin(w, linked) PROVE OnePayer' /\ PayersKnow'
  <2>1. Elsewhere(w) /\ ~Paying(w)'
    BY <1>1, <1>4 DEF Begin, GoTo, Elsewhere, Paying
  <2> QED
    BY <1>4, <2>1, StopsPaying DEF Begin
<1>5. ASSUME NEW w \in Workers, NEW c \in Configs, Reserve(w, c) PROVE OnePayer' /\ PayersKnow'
  <2>1. CASE rows' = rows /\ Ends(w)
    BY <1>2, <1>5, <2>1, StopsPaying DEF Reserve
  <2>2. CASE ~(rows' = rows /\ Ends(w))
    <3> DEFINE n == Len(rows) + 1
    <3>1. PICK r : rows' = Append(rows, r) /\ r.state = "reserved"
      BY <1>5, <2>2 DEF Reserve
    <3>2. /\ n \notin DOMAIN rows /\ n \in 1 .. MaxCalls
          /\ rows'[n].state = "reserved"
          /\ \A i \in DOMAIN rows : rows'[i] = rows[i]
      <4>1. rows' # rows
        BY <1>1, <3>1, TableFacts, AppendProperties DEF TypeOK
      <4>2. PICK s : Admitted(s)
        BY <1>1, <1>5, <4>1, ReserveAdmits
      <4> QED
        BY <1>1, <4>2, AppendRow DEF Admitted
    <3>3. pc' = [pc EXCEPT ![w] = "calling"] /\ bill' = bill
      BY <1>5, <2>2 DEF Reserve, GoTo
    <3>4. run'[w].permit = n /\ \A v \in Workers \ {w} : run'[v] = run[v]
      <4>1. PICK tried : run' = [run EXCEPT ![w] = [@ EXCEPT !.tried = tried, !.permit = n]]
        BY <1>5, <2>2 DEF Reserve
      <4> QED
        BY <1>1, <4>1 DEF RunType
    <3> HIDE DEF n
    <3>5. bill[n] = 0
      <4>1. n > Len(rows)
        BY <1>1, TableFacts DEF n, TypeOK
      <4> QED
        BY <3>2, <4>1 DEF RowsTell
    <3>6. \A v \in Workers \ {w} : Paying(v) => run[v].permit \in DOMAIN rows
      BY <1>1 DEF PermitsAreRows, Paying
    <3>7. \A v \in Workers \ {w} : pc'[v] = pc[v]
      BY <1>1, <3>3
    <3>8. pc'[w] = "calling"
      BY <1>1, <3>3
    <3>9. OnePayer'
      BY <3>2, <3>4, <3>6, <3>7, <3>8 DEF OnePayer, Paying
    <3>10. PayersKnow'
      BY <3>2, <3>3, <3>4, <3>5, <3>6, <3>7, <3>8 DEF PayersKnow, Paying
    <3> QED
      BY <3>9, <3>10
  <2> QED
    BY <2>1, <2>2
<1>6. ASSUME NEW w \in Workers, NEW n \in Tokens, Call(w, n) PROVE OnePayer' /\ PayersKnow'
  <2>1. pc[w] = "calling" /\ pc' = [pc EXCEPT ![w] = "settling"] /\ rows' = rows
    BY <1>6 DEF Call, GoTo
  <2>2. PICK error \in BOOLEAN, usage \in BOOLEAN, k \in {n, -1} :
           run' = [run EXCEPT ![w] = [@ EXCEPT !.answer =
                      [tokens |-> k, usage |-> usage, error |-> error]]]
    BY <1>6 DEF Call
  <2>3. /\ run'[w].permit = run[w].permit /\ run'[w].answer.tokens = k
        /\ \A v \in Workers \ {w} : run'[v] = run[v]
    BY <1>1, <2>2 DEF RunType
  <2>4. /\ bill'[run[w].permit] = Cost(n)
        /\ \A v \in Workers \ {w} : Paying(v) => bill'[run[v].permit] = bill[run[v].permit]
    <3>1. run[w].permit \in 1 .. MaxCalls
      BY <1>1, <2>1, TableFacts, BudgetConstants DEF PermitsAreRows, TypeOK
    <3>2. \A v \in Workers \ {w} : Paying(v) => run[v].permit # run[w].permit
      BY <2>1 DEF OnePayer, Paying
    <3>3. bill' = [bill EXCEPT ![run[w].permit] = Cost(n)]
      BY <1>6 DEF Call
    <3> QED
      BY <1>1, <3>1, <3>2, <3>3
  <2>5. pc'[w] = "settling" /\ \A v \in Workers \ {w} : pc'[v] = pc[v]
    BY <1>1, <2>1
  <2>6. \A v \in Workers : Paying(v)' => Paying(v) /\ run'[v].permit = run[v].permit
    BY <2>1, <2>3, <2>5 DEF Paying
  <2>7. OnePayer'
    BY <2>6 DEF OnePayer
  <2>8. PayersKnow'
    BY <2>1, <2>3, <2>4, <2>5 DEF PayersKnow, Paying
  <2> QED
    BY <2>7, <2>8
<1>7. ASSUME NEW w \in Workers, Settle(w) PROVE OnePayer' /\ PayersKnow'
  <2>1. Elsewhere(w) /\ ~Paying(w)'
    <3>1. CASE Ends(w)
      BY <1>2, <3>1
    <3>2. CASE ~Ends(w)
      BY <1>1, <1>7, <3>2 DEF Settle, GoTo, Elsewhere, Paying
    <3> QED
      BY <3>1, <3>2
  <2>2. ASSUME NEW v \in Workers \ {w}, pc[v] = "calling"
        PROVE  rows'[run[v].permit] = rows[run[v].permit]
    <3>1. run[v].permit # run[w].permit /\ run[v].permit \in DOMAIN rows
      BY <1>1, <1>7, <2>2 DEF OnePayer, PermitsAreRows, Paying, Settle
    <3>2. CASE Rests
      BY <3>2 DEF Rests
    <3>3. ASSUME NEW r, run[w].permit \in DOMAIN rows, Decides(run[w].permit, r)
          PROVE  rows'[run[v].permit] = rows[run[v].permit]
      BY <1>1, <3>1, <3>3, DecideRow
    <3> QED
      BY <1>1, <1>7, <3>2, <3>3, SettleAccount
  <2>3. bill' = bill
    BY <1>7 DEF Settle
  <2> QED
    BY <2>1, <2>2, <2>3, StopsPaying
<1>8. ASSUME NEW i \in DOMAIN rows, Reconcile(i) PROVE OnePayer' /\ PayersKnow'
  <2>1. PICK r : Decides(i, r)
    BY <1>1, <1>8, ReconcileAccount
  <2>2. \A w \in Workers : pc[w] = "calling" => rows'[run[w].permit] = rows[run[w].permit]
    BY <1>1, <1>8, <2>1, DecideRow DEF Reconcile, PermitsAreRows
  <2> QED
    BY <1>8, <2>2 DEF Reconcile, OnePayer, PayersKnow, Paying
<1>9. ASSUME UNCHANGED <<rows, bill, pc, run>> PROVE OnePayer' /\ PayersKnow'
  BY <1>9 DEF OnePayer, PayersKnow, Paying
<1> QED
  BY <1>3, <1>4, <1>5, <1>6, <1>7, <1>8, <1>9 DEF Next, vars, Review, NextDay

\* Charges that are no greater, over no more rows, stay within the limit.
LEMMA LessCharged ==
    ASSUME NEW old \in Seq(RowType), NEW new \in Seq(RowType),
           NEW S \in SUBSET DOMAIN old, NEW T \in SUBSET DOMAIN new, T \subseteq S,
           \A i \in T : Charge(new[i]) <= Charge(old[i]),
           SumOver(Charged(old), S) <= Limit
    PROVE  SumOver(Charged(new), T) <= Limit
<1>1. IsFiniteSet(S) /\ IsFiniteSet(T)
  BY TableFacts
<1>2. \A i \in S : Charged(old)[i] \in Nat
  BY TableFacts
<1>3. \A i \in T : /\ Charged(new)[i] \in Nat /\ Charged(old)[i] \in Nat
                   /\ Charged(new)[i] <= Charged(old)[i]
  BY TableFacts
<1>4. /\ SumOver(Charged(new), T) \in Nat /\ SumOver(Charged(old), T) \in Nat
      /\ SumOver(Charged(old), S) \in Nat
  BY <1>1, <1>2, <1>3, SumType
<1>5. SumOver(Charged(new), T) <= SumOver(Charged(old), T)
  BY <1>1, <1>3, SumLeq
<1>6. SumOver(Charged(old), T) <= SumOver(Charged(old), S)
  BY <1>1, <1>2, SumSubset
<1> QED
  BY <1>4, <1>5, <1>6, BudgetConstants

\* A hold for which there is room is added.
LEMMA OneMoreHold ==
    ASSUME TypeOK, NEW r, Admitted(r), rows' \in Seq(RowType), Limit # 0,
           NEW S \in SUBSET Counted(rows, day)
    PROVE  SumOver(Charged(rows'), S \cup {Len(rows) + 1}) <= Limit
<1> DEFINE n == Len(rows) + 1
           old == Charged(rows)
           new == Charged(rows')
<1>1. /\ n \notin DOMAIN rows /\ n \in DOMAIN rows'
      /\ rows'[n] = r /\ \A i \in DOMAIN rows : i \in DOMAIN rows' /\ rows'[i] = rows[i]
  BY AppendRow
<1>2. Counted(rows, day) \in SUBSET DOMAIN rows /\ S \in SUBSET DOMAIN rows
  BY DEF Counted
<1>3. IsFiniteSet(Counted(rows, day)) /\ IsFiniteSet(S)
  BY <1>2, TableFacts DEF TypeOK
<1>4. /\ \A i \in DOMAIN rows : old[i] \in Nat /\ new[i] = old[i]
      /\ new[n] = r.held /\ new[n] \in Nat
  <2>1. r.state \notin Closed
    BY DEF Admitted, Closed
  <2>2. \A i \in DOMAIN rows : old[i] \in Nat /\ old[i] = Charge(rows[i])
    BY TableFacts DEF TypeOK
  <2>3. \A i \in DOMAIN rows' : new[i] \in Nat /\ new[i] = Charge(rows'[i])
    BY TableFacts
  <2> QED
    BY <1>1, <2>1, <2>2, <2>3 DEF Charge
<1> HIDE DEF n, old, new
<1>5. SumOver(new, S) = SumOver(old, S)
  BY <1>2, <1>3, <1>4, SumSame
<1>6. SumOver(old, S) <= SumOver(old, Counted(rows, day))
  BY <1>2, <1>3, <1>4, SumSubset
<1>7. SumOver(new, S \cup {n}) = SumOver(new, S) + new[n]
  BY <1>1, <1>2, <1>3, <1>4, SumAdd
<1>8. SumOver(old, S) \in Nat /\ SumOver(old, Counted(rows, day)) \in Nat
  BY <1>2, <1>3, <1>4, SumType
<1>9. SumOver(old, Counted(rows, day)) + r.held <= Limit
  BY ChargesAre DEF Admitted, old
<1>10. SumOver(new, S \cup {n}) <= Limit
  BY <1>4, <1>5, <1>6, <1>7, <1>8, <1>9, BudgetConstants
<1> QED
  BY <1>10 DEF n, new

\* What is admitted stays covered, whatever is billed below it, settled or decided.
LEMMA CoveredKept ==
    ASSUME TypeOK, rows' \in Seq(RowType), RowsTell, Covered, AccountStep
    PROVE  Covered'
<1> SUFFICES ASSUME Limit # 0
             PROVE  /\ AllCovered(rows', bill', day')
                    /\ \A d \in 0 .. day' : DayCovered(rows', bill', d)
  BY DEF Covered
<1>1. /\ rows \in Seq(RowType) /\ day \in Nat
      /\ \A i \in DOMAIN rows : rows[i].day \in Nat /\ rows[i].day <= day
      /\ bill \in [1 .. MaxCalls -> Nat]
      /\ DOMAIN rows \subseteq 1 .. MaxCalls
  BY TableFacts, BudgetConstants DEF TypeOK, RowsTell
<1>2. AllCovered(rows, bill, day) /\ \A d \in 0 .. day : DayCovered(rows, bill, d)
  BY DEF Covered
<1>3. /\ \A d : OfDay(rows, d) \in SUBSET DOMAIN rows /\ OfDay(rows', d) \in SUBSET DOMAIN rows'
      /\ Counted(rows, day) \in SUBSET DOMAIN rows /\ Counted(rows', day') \in SUBSET DOMAIN rows'
  BY DEF OfDay, Counted
<1>4. CASE Rests
  <2>1. rows' = rows /\ bill' = bill
    BY <1>4 DEF Rests
  <2>2. CASE day' = day
    BY <1>2, <2>1, <2>2
  <2>3. CASE day' = day + 1
    <3>1. Counted(rows, day + 1) \subseteq Counted(rows, day)
      BY <1>1 DEF Counted
    <3>2. AllCovered(rows, bill, day + 1)
      <4> SUFFICES ASSUME Kept(bill, rows, DOMAIN rows)
                   PROVE  SumOver(Charged(rows), Counted(rows, day + 1)) <= Limit
        BY DEF AllCovered
      <4>1. SumOver(Charged(rows), Counted(rows, day)) <= Limit
        BY <1>2 DEF AllCovered
      <4>2. Counted(rows, day + 1) \in SUBSET DOMAIN rows
        BY <1>3, <3>1
      <4>3. \A i \in Counted(rows, day + 1) : Charge(rows[i]) <= Charge(rows[i])
        <5>1. \A i \in DOMAIN rows : Charged(rows)[i] = Charge(rows[i]) /\ Charged(rows)[i] \in Nat
          BY <1>1, TableFacts
        <5> QED
          BY <4>2, <5>1
      <4> QED
        BY <1>1, <1>3, <3>1, <4>1, <4>2, <4>3, LessCharged
    <3>3. DayCovered(rows, bill, day + 1)
      <4>1. OfDay(rows, day + 1) = {}
        BY <1>1 DEF OfDay
      <4>2. SumOver(Charged(rows), {}) = 0
        BY SumEmpty
      <4>3. SumOver(Charged(rows), OfDay(rows, day + 1)) = 0
        BY <4>1, <4>2, Zenon
      <4>4. 0 <= Limit
        BY BudgetConstants
      <4> QED
        BY <4>3, <4>4 DEF DayCovered
    <3>4. \A d \in 0 .. day + 1 : d \in 0 .. day \/ d = day + 1
      BY <1>1
    <3> QED
      BY <1>2, <2>1, <2>3, <3>2, <3>3, <3>4
  <2> QED
    BY <1>4, <2>2, <2>3 DEF Rests
<1>5. ASSUME NEW r, Admitted(r)
      PROVE  /\ AllCovered(rows', bill', day')
             /\ \A d \in 0 .. day' : DayCovered(rows', bill', d)
  <2> DEFINE n == Len(rows) + 1
  <2>1. /\ n \notin DOMAIN rows /\ DOMAIN rows' = DOMAIN rows \cup {n}
        /\ rows'[n] = r /\ \A i \in DOMAIN rows : rows'[i] = rows[i]
    BY <1>5, AppendRow
  <2>2. bill' = bill /\ day' = day /\ r.day = day /\ r.state = "reserved"
    BY <1>5 DEF Admitted
  <2> HIDE DEF n
  <2>3. Counted(rows', day) = Counted(rows, day) \cup {n}
    BY <2>1, <2>2 DEF Counted
  <2>4. OfDay(rows', day) = OfDay(rows, day) \cup {n}
    BY <2>1, <2>2 DEF OfDay
  <2>5. OfDay(rows, day) \in SUBSET Counted(rows, day)
    BY DEF OfDay, Counted
  <2>6. AllCovered(rows', bill', day') /\ DayCovered(rows', bill', day)
    BY <1>5, <2>2, <2>3, <2>4, <2>5, OneMoreHold DEF AllCovered, DayCovered, n
  <2>7. ASSUME NEW d \in 0 .. day, d # day PROVE DayCovered(rows', bill', d)
    <3>1. OfDay(rows', d) = OfDay(rows, d)
      BY <2>1, <2>2, <2>7 DEF OfDay
    <3>2. \A i \in OfDay(rows, d) : rows'[i] = rows[i] /\ i \in DOMAIN rows
      BY <1>3, <2>1
    <3>3. \A i \in OfDay(rows, d) : Charge(rows'[i]) <= Charge(rows[i])
      <4>1. \A i \in DOMAIN rows : Charged(rows)[i] = Charge(rows[i]) /\ Charged(rows)[i] \in Nat
        BY <1>1, TableFacts
      <4> QED
        BY <3>2, <4>1
    <3> SUFFICES ASSUME Kept(bill', rows', OfDay(rows', d))
                 PROVE  SumOver(Charged(rows'), OfDay(rows', d)) <= Limit
      BY DEF DayCovered
    <3>4. Kept(bill, rows, OfDay(rows, d))
      BY <2>2, <3>1, <3>2 DEF Kept
    <3>5. SumOver(Charged(rows), OfDay(rows, d)) <= Limit
      BY <1>2, <3>4 DEF DayCovered
    <3>6. OfDay(rows', d) \subseteq OfDay(rows, d)
      BY <3>1
    <3>7. \A i \in OfDay(rows', d) : Charge(rows'[i]) <= Charge(rows[i])
      BY <3>1, <3>3
    <3> QED
      BY <1>1, <1>3, <3>5, <3>6, <3>7, LessCharged
  <2> QED
    BY <2>2, <2>6, <2>7
\* Otherwise no charge of a kept row grows, and no terms that were broken are kept.
<1>6. ASSUME day' = day, DOMAIN rows' = DOMAIN rows,
             \A i \in DOMAIN rows : /\ rows'[i].day = rows[i].day
                                    /\ rows[i].state \in Closed => rows'[i].state \in Closed
                                    /\ bill'[i] <= rows'[i].held => bill[i] <= rows[i].held
                                    /\ bill'[i] <= rows'[i].held => Charge(rows'[i]) <= Charge(rows[i])
      PROVE  /\ AllCovered(rows', bill', day')
             /\ \A d \in 0 .. day' : DayCovered(rows', bill', d)
  <2>1. AllCovered(rows', bill', day')
    <3> SUFFICES ASSUME Kept(bill', rows', DOMAIN rows')
                 PROVE  SumOver(Charged(rows'), Counted(rows', day')) <= Limit
      BY DEF AllCovered
    <3>1. Kept(bill, rows, DOMAIN rows)
      BY <1>6 DEF Kept
    <3>2. SumOver(Charged(rows), Counted(rows, day)) <= Limit
      BY <1>2, <3>1 DEF AllCovered
    <3>3. Counted(rows', day') \subseteq Counted(rows, day)
      BY <1>6 DEF Counted
    <3>4. \A i \in Counted(rows', day') : Charge(rows'[i]) <= Charge(rows[i])
      BY <1>3, <1>6 DEF Kept
    <3> QED
      BY <1>1, <1>3, <3>2, <3>3, <3>4, LessCharged
  <2>2. ASSUME NEW d \in 0 .. day' PROVE DayCovered(rows', bill', d)
    <3> SUFFICES ASSUME Kept(bill', rows', OfDay(rows', d))
                 PROVE  SumOver(Charged(rows'), OfDay(rows', d)) <= Limit
      BY DEF DayCovered
    <3>1. OfDay(rows', d) = OfDay(rows, d)
      BY <1>6 DEF OfDay
    <3>2. Kept(bill, rows, OfDay(rows, d))
      BY <1>3, <1>6, <3>1 DEF Kept
    <3>3. SumOver(Charged(rows), OfDay(rows, d)) <= Limit
      BY <1>2, <1>6, <3>2 DEF DayCovered
    <3>4. OfDay(rows', d) \subseteq OfDay(rows, d)
      BY <3>1
    <3>5. \A i \in OfDay(rows', d) : Charge(rows'[i]) <= Charge(rows[i])
      BY <1>3, <1>6 DEF Kept
    <3> QED
      BY <1>1, <1>3, <3>3, <3>4, <3>5, LessCharged
  <2> QED
    BY <2>1, <2>2
<1>7. ASSUME NEW k \in DOMAIN rows, Billed(k)
      PROVE  /\ AllCovered(rows', bill', day')
             /\ \A d \in 0 .. day' : DayCovered(rows', bill', d)
  <2>1. rows' = rows /\ day' = day
    BY <1>7 DEF Billed
  <2>2. \A i \in DOMAIN rows : bill[i] \in Nat /\ bill'[i] \in Nat /\ bill[i] <= bill'[i]
    BY <1>1, <1>7 DEF Billed
  <2>3. \A i \in DOMAIN rows : rows[i].held \in Nat /\ Charge(rows[i]) \in Nat
    BY <1>1, TableFacts DEF Charge
  <2>4. \A i \in DOMAIN rows : /\ bill'[i] <= rows[i].held => bill[i] <= rows[i].held
                               /\ Charge(rows[i]) <= Charge(rows[i])
    BY <2>2, <2>3
  <2> QED
    BY <1>6, <2>1, <2>4
<1>8. ASSUME NEW k \in DOMAIN rows, NEW r, Decides(k, r)
      PROVE  /\ AllCovered(rows', bill', day')
             /\ \A d \in 0 .. day' : DayCovered(rows', bill', d)
  <2>1. DOMAIN rows' = DOMAIN rows /\ rows'[k] = r /\ \A j \in DOMAIN rows : j # k => rows'[j] = rows[j]
    BY <1>8, DecideRow
  <2>2. /\ day' = day /\ bill' = bill
        /\ r.day = rows[k].day /\ r.held = rows[k].held /\ rows[k].state \notin Closed
        /\ r.state \in Closed => r.actual = bill[k]
    BY <1>8 DEF Decides
  <2>3. \A i \in DOMAIN rows : rows[i].held \in Nat /\ Charge(rows[i]) \in Nat
    BY <1>1, TableFacts DEF Charge
  <2>4. bill[k] <= rows[k].held => Charge(r) <= Charge(rows[k])
    BY <2>2, <2>3 DEF Charge
  <2>5. \A i \in DOMAIN rows : Charge(rows[i]) <= Charge(rows[i])
    BY <2>3
  <2> QED
    BY <1>6, <2>1, <2>2, <2>4, <2>5
<1> QED
  BY <1>4, <1>5, <1>7, <1>8 DEF AccountStep

----------------------------------------------------------------------------
\* The invariant of the account, and what it is for.

LEMMA AccountInit == Init => AccountInv
<1> SUFFICES ASSUME Init PROVE AccountInv
  OBVIOUS
<1>1. IInv
  BY InitIInv
<1>2. DOMAIN rows = {} /\ Len(rows) = 0
  BY EmptySeq DEF Init
<1>3. OnePayer /\ PayersKnow /\ RowsTell
  BY <1>2 DEF Init, OnePayer, PayersKnow, RowsTell, Paying
<1>4. Covered
  <2>1. Counted(rows, day) = {} /\ \A d : OfDay(rows, d) = {}
    BY <1>2 DEF Counted, OfDay
  <2>2. SumOver(Charged(rows), {}) = 0
    BY SumEmpty
  <2>3. SumOver(Charged(rows), Counted(rows, day)) = 0
    BY <2>1, <2>2, Zenon
  <2>4. \A d : SumOver(Charged(rows), OfDay(rows, d)) = 0
    BY <2>1, <2>2, Zenon
  <2>5. 0 <= Limit
    BY BudgetConstants
  <2> QED
    BY <2>3, <2>4, <2>5 DEF Covered, AllCovered, DayCovered
<1> QED
  BY <1>1, <1>3, <1>4 DEF AccountInv

LEMMA AccountInvStep == AccountInv /\ [Next]_vars => AccountInv'
<1> SUFFICES ASSUME AccountInv, [Next]_vars PROVE AccountInv'
  OBVIOUS
<1>1. /\ IInv /\ TypeOK /\ PermitsAreRows
      /\ OnePayer /\ PayersKnow /\ RowsTell /\ Covered
  BY DEF AccountInv, IInv
<1>2. IInv'
  BY <1>1, IInvStep
<1>3. rows' \in Seq(RowType)
  BY <1>2 DEF IInv, TypeOK
<1>4. AccountStep
  BY <1>1, AccountSteps
<1>5. OnePayer' /\ PayersKnow'
  BY <1>1, PayersKept
<1>6. RowsTell'
  BY <1>1, <1>4, RowsTold
<1>7. Covered'
  BY <1>1, <1>3, <1>4, CoveredKept
<1> QED
  BY <1>2, <1>5, <1>6, <1>7 DEF AccountInv

\* The account's invariant: one worker pays for a permit and knows the bill, and
\* all that was admitted is charged within the limit, as long as suppliers keep
\* to the terms.
THEOREM AccountKept == Spec => []AccountInv
BY AccountInit, AccountInvStep, PTL DEF Spec

\* Bills summed as the model sums them.
LEMMA BillsAre ==
    ASSUME TypeOK, NEW S \in SUBSET DOMAIN rows
    PROVE  MapThenSumSet(LAMBDA i : bill[i], S) = SumOver(bill, S)
<1> DEFINE h == CHOOSE g : g = [s \in SUBSET S |->
                    IF s = {} THEN 0 ELSE bill[Pick(s)] + g[s \ {Pick(s)}]]
<1>1. IsFiniteSet(S)
  BY TableFacts DEF TypeOK
<1>2. MapThenSumSet(LAMBDA i : bill[i], S) = h[S]
  BY DEF MapThenSumSet, MapThenFoldSet, Pick
<1>3. \A g : IsSums(g, bill, S) <=>
        g = [s \in SUBSET S |-> IF s = {} THEN 0 ELSE bill[Pick(s)] + g[s \ {Pick(s)}]]
  BY DEF IsSums
<1>4. IsSums(h, bill, S)
  BY <1>1, <1>3, SumsExist
<1> HIDE DEF h
<1>5. SumOver(bill, S) = h[S]
  BY <1>1, <1>4, SumFrom
<1> QED
  BY <1>2, <1>5

\* A row charges no less than its bill, open or closed.
LEMMA BillsCharged ==
    ASSUME TypeOK, RowsTell, NEW i \in DOMAIN rows, bill[i] <= rows[i].held
    PROVE  bill[i] \in Nat /\ Charged(rows)[i] \in Nat /\ bill[i] <= Charged(rows)[i]
<1>1. /\ DOMAIN rows \subseteq 1 .. MaxCalls
      /\ Charged(rows)[i] = Charge(rows[i]) /\ Charged(rows)[i] \in Nat
  BY TableFacts, BudgetConstants DEF TypeOK
<1>2. bill[i] \in Nat
  BY <1>1 DEF TypeOK
<1>3. bill[i] <= Charge(rows[i])
  BY <1>2 DEF RowsTell, Charge
<1> QED
  BY <1>1, <1>2, <1>3

LEMMA LimitKept == AccountInv => BilledWithinLimit
<1> SUFFICES ASSUME AccountInv, NEW d \in 0 .. day, Limit # 0,
                    KeptTerms(OfDay(rows, d))
             PROVE  MapThenSumSet(LAMBDA i : bill[i], OfDay(rows, d)) <= Limit
  BY Zenon DEF BilledWithinLimit, OfDay
<1> DEFINE S == OfDay(rows, d)
<1>1. TypeOK /\ RowsTell /\ DayCovered(rows, bill, d)
  BY DEF AccountInv, IInv, Covered
<1>2. S \in SUBSET DOMAIN rows
  BY DEF OfDay
<1>3. Kept(bill, rows, S) /\ \A i \in S : bill[i] <= rows[i].held
  BY DEF KeptTerms, Kept
<1>4. \A i \in S : bill[i] \in Nat /\ Charged(rows)[i] \in Nat /\ bill[i] <= Charged(rows)[i]
  BY <1>1, <1>2, <1>3, BillsCharged
<1>5. SumOver(Charged(rows), S) <= Limit
  BY <1>1, <1>3 DEF DayCovered
<1> HIDE DEF S
<1>6. IsFiniteSet(S)
  BY <1>1, <1>2, TableFacts DEF TypeOK
<1>7. SumOver(bill, S) <= SumOver(Charged(rows), S)
  BY <1>4, <1>6, SumLeq
<1>8. SumOver(bill, S) \in Nat /\ SumOver(Charged(rows), S) \in Nat
  BY <1>4, <1>6, SumType
<1>9. MapThenSumSet(LAMBDA i : bill[i], S) = SumOver(bill, S)
  BY <1>1, <1>2, BillsAre
<1>10. SumOver(bill, S) <= Limit
  BY <1>5, <1>7, <1>8, BudgetConstants
<1> QED
  BY <1>9, <1>10 DEF S

\* Whatever is billed in the end for the calls admitted on one day is within the
\* day's limit, if the supplier keeps to the terms of these calls.
THEOREM WithinLimit == Spec => []BilledWithinLimit
BY AccountKept, LimitKept, PTL

LEMMA HoldsKept == AccountInv => OpenHoldsCovered
<1> SUFFICES ASSUME AccountInv, Limit # 0, KeptTerms(DOMAIN rows)
             PROVE  MapThenSumSet(LAMBDA i : rows[i].held, Open)
                      + MapThenSumSet(LAMBDA i : rows[i].actual, Today \ Open) <= Limit
  BY Zenon DEF OpenHoldsCovered
<1> DEFINE f == Charged(rows)
<1>1. TypeOK /\ AllCovered(rows, bill, day)
  BY DEF AccountInv, IInv, Covered
<1>2. SumOver(f, Counted(rows, day)) <= Limit
  BY <1>1 DEF AllCovered, Kept, KeptTerms
<1>3. Counted(rows, day) = Open \cup (Today \ Open) /\ Open \cap (Today \ Open) = {}
  BY DEF Counted, Open, Today
<1>4. Open \in SUBSET DOMAIN rows /\ (Today \ Open) \in SUBSET DOMAIN rows
  BY DEF Open, Today
<1>5. /\ IsFiniteSet(Open) /\ IsFiniteSet(Today \ Open)
      /\ \A i \in Open \cup (Today \ Open) : f[i] \in Nat
  BY <1>1, <1>4, TableFacts DEF TypeOK
<1> HIDE DEF f
<1>6. SumOver(f, Open \cup (Today \ Open)) = SumOver(f, Open) + SumOver(f, Today \ Open)
  BY <1>3, <1>5, SumSplit
<1>7. SumOver(f, Counted(rows, day)) = SumOver(f, Open) + SumOver(f, Today \ Open)
  BY <1>3, <1>6, Zenon
<1>8. SumOver(f, Open) + SumOver(f, Today \ Open) <= Limit
  BY <1>2, <1>7
<1>9. /\ MapThenSumSet(LAMBDA i : rows[i].held, Open) = SumOver(f, Open)
      /\ MapThenSumSet(LAMBDA i : rows[i].actual, Today \ Open) = SumOver(f, Today \ Open)
  BY <1>1, HoldsAre DEF f
<1> QED
  BY <1>8, <1>9

\* What is open, of whatever day, and what today has cost are within the limit.
THEOREM HoldsCovered == Spec => []OpenHoldsCovered
BY AccountKept, HoldsKept, PTL
=============================================================================
