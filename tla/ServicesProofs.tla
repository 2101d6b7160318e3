--------------------------- MODULE ServicesProofs ---------------------------
(***************************************************************************)
(* Proofs about the parts of Services: the jobs of a company, the fetches  *)
(* of a run, LLM calls with their routes and their breaker, and the work   *)
(* of the articles, whose proofs are those of ArticleJobsProofs.  Each     *)
(* part has an inductive invariant of its own; it is kept beside the       *)
(* others because a step of another part leaves its variables as they are. *)
(***************************************************************************)
EXTENDS Services, SetSums, SequenceTheorems, TLAPS

----------------------------------------------------------------------------
\* The jobs of a company.

\* Before the company exists there are no jobs.
NoJobsBefore == company.there = "absent" => \A j \in Jobs : job[j].state = "none"

\* A delivery at work has claimed its row, and holds it or finds it closed.
AtWork(o) == owner[o].phase \notin {"new", "done"}
WorksOnItsClaim ==
    \A o \in Owners : AtWork(o) =>
        /\ owner[o].job \in Jobs
        /\ job[owner[o].job].state \notin {"none", "queued"}
        /\ job[owner[o].job].state = "running" => job[owner[o].job].owner = o

\* A running job has read what is there, unless the generation has moved on.
ReadUnlessMoved ==
    \A j \in Jobs : job[j].state = "running" =>
        /\ job[j].gen <= company.gen
        /\ job[j].gen = company.gen => job[j].read = company.values

CompanyInv ==
    /\ CompanyTypeOK /\ OneActiveRefresh
    /\ NoJobsBefore /\ WorksOnItsClaim /\ ReadUnlessMoved

LEMMA Bounds ==
    /\ QueueLife \in Nat /\ RunLife \in Nat /\ Gap \in Nat
    /\ 0 \in 0..QueueLife /\ 0 \in 0..RunLife /\ 0 \in 0..Gap
    /\ QueueLife \in 0..QueueLife /\ Gap \in 0..Gap
BY CompanyConstants

LEMMA RowTypes ==
    /\ NoValues \in Values
    /\ NoRow \in JobRows
    /\ \A gen, sgen \in Nat : Row(gen, sgen) \in JobRows
    /\ \A state \in JobStates : [NoRow EXCEPT !.state = state] \in JobRows
<1>1. NoValues \in Values
  BY DEF NoValues, Values
<1>2. "none" \in JobStates /\ "queued" \in JobStates
  BY DEF JobStates
<1>3. NoRow \in JobRows
  BY <1>1, <1>2, Bounds DEF NoRow, JobRows
<1>4. \A gen, sgen \in Nat : Row(gen, sgen) \in JobRows
  <2> SUFFICES ASSUME NEW gen \in Nat, NEW sgen \in Nat PROVE Row(gen, sgen) \in JobRows
    OBVIOUS
  <2> QED
    BY <1>2, <1>3, Bounds, Zenon DEF Row, JobRows
<1>5. \A state \in JobStates : [NoRow EXCEPT !.state = state] \in JobRows
  BY <1>3, Zenon DEF JobRows
<1> QED
  BY <1>1, <1>3, <1>4, <1>5

\* A row in the table replaced by another.
LEMMA JobSet ==
    ASSUME CompanyTypeOK, NEW j \in Jobs, NEW r \in JobRows, job' = [job EXCEPT ![j] = r]
    PROVE  /\ job' \in [Jobs -> JobRows] /\ job'[j] = r
           /\ \A k \in Jobs : k # j => job'[k] = job[k]
BY DEF CompanyTypeOK

LEMMA CompanyInitially == CompanyInit => CompanyInv
<1> SUFFICES ASSUME CompanyInit PROVE CompanyInv
  OBVIOUS
<1>1. CompanyTypeOK
  BY RowTypes, CompanyConstants
     DEF CompanyInit, CompanyTypeOK, Companies, NoValues, Values, Phases, None
<1> QED
  BY <1>1 DEF CompanyInit, CompanyInv, OneActiveRefresh, Active, Refreshes, Jobs, NoJobsBefore,
     WorksOnItsClaim, AtWork, ReadUnlessMoved, NoRow

\* What almost every step is: rows go on or are closed, deliveries go on or end,
\* and the generation tells whether the company has changed.
KeepsRow(k) ==
    /\ job'[k].state = job[k].state /\ job'[k].owner = job[k].owner
    /\ job'[k].gen = job[k].gen /\ job'[k].read = job[k].read
ClosesRow(k) ==
    /\ Active(k)
    /\ \/ job'[k].state \in {"blocked", "stale"}
       \/ job'[k].state = "succeeded" /\ There /\ company.values = job[k].read
TableGoesOn == \A k \in Jobs : KeepsRow(k) \/ ClosesRow(k)

Pays(o) ==
    /\ Runs(o, owner[o].job) /\ ~job[owner[o].job].unsettled
    /\ job'[owner[o].job].tried # job[owner[o].job].tried
OwnersGoOn ==
    \A o \in Owners :
        \/ owner'[o].phase \in {"new", "done"}
        \/ /\ AtWork(o) /\ owner'[o].job = owner[o].job
           /\ owner'[o].phase = "calling" => InPhase(o, "calling") \/ Pays(o)

GenerationTells ==
    /\ company'.there = "absent" => company.there = "absent"
    /\ \/ company.there = "absent"
       \/ /\ company.gen <= company'.gen
          /\ company'.gen = company.gen => company'.values = company.values

GoesOn == TableGoesOn /\ OwnersGoOn /\ GenerationTells

LEMMA GoesOnKeeps ==
    ASSUME CompanyInv, CompanyTypeOK', GoesOn
    PROVE  CompanyInv'
<1>1. /\ OneActiveRefresh /\ NoJobsBefore /\ WorksOnItsClaim /\ ReadUnlessMoved
      /\ TableGoesOn /\ OwnersGoOn /\ GenerationTells
  BY DEF CompanyInv, GoesOn
<1>2. \A k \in Jobs : /\ job'[k].state \in {"queued", "running"} => KeepsRow(k) /\ Active(k)
                      /\ job[k].state = "none" => job'[k].state = "none"
                      /\ job[k].state \notin {"none", "queued"} => job'[k].state \notin {"none", "queued"}
  BY <1>1 DEF TableGoesOn, KeepsRow, ClosesRow, Active
<1>3. OneActiveRefresh'
  BY <1>1, <1>2 DEF OneActiveRefresh, Active, Jobs
<1>4. NoJobsBefore'
  BY <1>1, <1>2 DEF NoJobsBefore, GenerationTells
<1>5. WorksOnItsClaim'
  <2> SUFFICES ASSUME NEW o \in Owners, AtWork(o)'
               PROVE  /\ owner'[o].job \in Jobs
                      /\ job'[owner'[o].job].state \notin {"none", "queued"}
                      /\ job'[owner'[o].job].state = "running" => job'[owner'[o].job].owner = o
    BY DEF WorksOnItsClaim
  <2>1. AtWork(o) /\ owner'[o].job = owner[o].job
    BY <1>1 DEF OwnersGoOn, AtWork
  <2> QED
    BY <1>1, <1>2, <2>1 DEF WorksOnItsClaim, KeepsRow
<1>6. ReadUnlessMoved'
  <2> SUFFICES ASSUME NEW k \in Jobs, job'[k].state = "running"
               PROVE  /\ job'[k].gen <= company'.gen
                      /\ job'[k].gen = company'.gen => job'[k].read = company'.values
    BY DEF ReadUnlessMoved
  <2>1. KeepsRow(k) /\ job[k].state = "running"
    BY <1>2 DEF KeepsRow
  <2>2. company.there # "absent"
    BY <1>1, <2>1 DEF NoJobsBefore
  <2>3. company.gen \in Nat /\ company'.gen \in Nat /\ job[k].gen \in Nat
    BY DEF CompanyInv, CompanyTypeOK, Companies, JobRows
  <2> QED
    BY <1>1, <2>1, <2>2, <2>3 DEF GenerationTells, ReadUnlessMoved, KeepsRow
<1> QED
  BY <1>3, <1>4, <1>5, <1>6 DEF CompanyInv

LEMMA GoesOnSoundly ==
    ASSUME CompanyTypeOK, GoesOn
    PROVE  SavedOnWhatWasRead /\ PaidByTheClaim
<1>1. SavedOnWhatWasRead
  BY DEF SavedOnWhatWasRead, GoesOn, TableGoesOn, KeepsRow, ClosesRow
<1>2. PaidByTheClaim
  BY DEF PaidByTheClaim, GoesOn, OwnersGoOn, Pays, InPhase
<1> QED
  BY <1>1, <1>2

\* One row is written: as it goes on, or as it is closed.
Writes(j, r) ==
    /\ r \in JobRows
    /\ job' = [job EXCEPT ![j] = r]
    /\ \/ /\ r.state = job[j].state /\ r.owner = job[j].owner
          /\ r.gen = job[j].gen /\ r.read = job[j].read
       \/ /\ Active(j)
          /\ \/ r.state \in {"blocked", "stale"}
             \/ r.state = "succeeded" /\ There /\ company.values = job[j].read

LEMMA WritesGoesOn ==
    ASSUME CompanyTypeOK, NEW j \in Jobs, NEW r, Writes(j, r)
    PROVE  TableGoesOn /\ job' \in [Jobs -> JobRows]
<1>1. job' \in [Jobs -> JobRows] /\ job'[j] = r /\ \A k \in Jobs : k # j => job'[k] = job[k]
  BY JobSet DEF Writes
<1> QED
  BY <1>1 DEF TableGoesOn, KeepsRow, ClosesRow, Writes

LEMMA ClosedWrites ==
    ASSUME NEW j \in Jobs, Active(j), NEW state \in {"succeeded", "blocked", "stale"},
           job' = Closed(j, state),
           state = "succeeded" => There /\ company.values = job[j].read
    PROVE  \E r : Writes(j, r)
<1>1. [NoRow EXCEPT !.state = state] \in JobRows
  BY RowTypes DEF JobStates
<1>2. [NoRow EXCEPT !.state = state].state = state
  BY DEF NoRow
<1> QED
  BY <1>1, <1>2, Zenon DEF Writes, Closed

\* A field of a row that none of the invariants is about.
LEMMA FieldWrites ==
    ASSUME CompanyTypeOK, NEW j \in Jobs
    PROVE  /\ \A n \in 0..Gap : job' = [job EXCEPT ![j].wait = n] => \E r : Writes(j, r)
           /\ job' = [job EXCEPT ![j].prompt = TRUE] => \E r : Writes(j, r)
           /\ job' = [job EXCEPT ![j].unsettled = FALSE] => \E r : Writes(j, r)
           /\ \A c \in Configs :
                job' = [job EXCEPT ![j].tried = @ \cup {c}, ![j].unsettled = TRUE] => \E r : Writes(j, r)
<1>1. job \in [Jobs -> JobRows] /\ job[j] \in JobRows
  BY DEF CompanyTypeOK
<1>2. ASSUME NEW n \in 0..Gap, job' = [job EXCEPT ![j].wait = n] PROVE \E r : Writes(j, r)
  <2> DEFINE r == [job[j] EXCEPT !.wait = n]
  <2>1. r \in JobRows
    BY <1>1, Zenon DEF JobRows
  <2>2. r.state = job[j].state /\ r.owner = job[j].owner /\ r.gen = job[j].gen /\ r.read = job[j].read
    BY <1>1 DEF JobRows
  <2>3. job' = [job EXCEPT ![j] = r]
    BY <1>2
  <2> QED
    BY <2>1, <2>2, <2>3, Zenon DEF Writes
<1>3. ASSUME job' = [job EXCEPT ![j].prompt = TRUE] PROVE \E r : Writes(j, r)
  <2> DEFINE r == [job[j] EXCEPT !.prompt = TRUE]
  <2>1. r \in JobRows
    BY <1>1, Zenon DEF JobRows
  <2>2. r.state = job[j].state /\ r.owner = job[j].owner /\ r.gen = job[j].gen /\ r.read = job[j].read
    BY <1>1 DEF JobRows
  <2>3. job' = [job EXCEPT ![j] = r]
    BY <1>3
  <2> QED
    BY <2>1, <2>2, <2>3, Zenon DEF Writes
<1>4. ASSUME job' = [job EXCEPT ![j].unsettled = FALSE] PROVE \E r : Writes(j, r)
  <2> DEFINE r == [job[j] EXCEPT !.unsettled = FALSE]
  <2>1. r \in JobRows
    BY <1>1, Zenon DEF JobRows
  <2>2. r.state = job[j].state /\ r.owner = job[j].owner /\ r.gen = job[j].gen /\ r.read = job[j].read
    BY <1>1 DEF JobRows
  <2>3. job' = [job EXCEPT ![j] = r]
    BY <1>4
  <2> QED
    BY <2>1, <2>2, <2>3, Zenon DEF Writes
<1>5. ASSUME NEW c \in Configs, job' = [job EXCEPT ![j].tried = @ \cup {c}, ![j].unsettled = TRUE]
      PROVE  \E r : Writes(j, r)
  <2> DEFINE r == [job[j] EXCEPT !.tried = @ \cup {c}, !.unsettled = TRUE]
  <2>1. r \in JobRows
    BY <1>1 DEF JobRows
  <2>2. r.state = job[j].state /\ r.owner = job[j].owner /\ r.gen = job[j].gen /\ r.read = job[j].read
    BY <1>1 DEF JobRows
  <2>3. job' = [job EXCEPT ![j] = r]
    BY <1>5
  <2> QED
    BY <2>1, <2>2, <2>3, Zenon DEF Writes
<1> QED
  BY <1>2, <1>3, <1>4, <1>5

LEMMA PhaseGoesOn ==
    ASSUME CompanyTypeOK, NEW o \in Owners, AtWork(o), NEW p \in Phases, Phase(o, p),
           p = "calling" => Pays(o)
    PROVE  OwnersGoOn /\ owner' \in [Owners -> [job: Jobs \cup {None}, phase: Phases]]
<1>1. owner \in [Owners -> [job: Jobs \cup {None}, phase: Phases]]
  BY DEF CompanyTypeOK
<1>2. /\ owner'[o].phase = p /\ owner'[o].job = owner[o].job
      /\ \A k \in Owners : k # o => owner'[k] = owner[k]
  BY <1>1 DEF Phase
<1>3. owner' \in [Owners -> [job: Jobs \cup {None}, phase: Phases]]
  BY <1>1 DEF Phase
<1>4. OwnersGoOn
  BY <1>1, <1>2 DEF OwnersGoOn, AtWork, InPhase
<1> QED
  BY <1>3, <1>4

LEMMA LeaveGoesOn ==
    ASSUME CompanyTypeOK, NEW o \in Owners, Leave(o)
    PROVE  OwnersGoOn /\ owner' \in [Owners -> [job: Jobs \cup {None}, phase: Phases]]
<1>1. owner \in [Owners -> [job: Jobs \cup {None}, phase: Phases]]
  BY DEF CompanyTypeOK
<1>2. Gone \in [job: Jobs \cup {None}, phase: Phases] /\ Gone.phase = "done"
  BY DEF Gone, Phases
<1>3. owner' = [owner EXCEPT ![o] = Gone]
  BY DEF Leave
<1> HIDE DEF Gone
<1>4. owner'[o].phase = "done" /\ \A k \in Owners : k # o => owner'[k] = owner[k]
  BY <1>1, <1>2, <1>3
<1> QED
  BY <1>1, <1>2, <1>3, <1>4 DEF OwnersGoOn, AtWork, InPhase

LEMMA StayGoesOn ==
    /\ UNCHANGED owner => OwnersGoOn
    /\ UNCHANGED job => TableGoesOn
    /\ CompanyTypeOK /\ UNCHANGED company => GenerationTells
<1>1. UNCHANGED owner => OwnersGoOn
  BY DEF OwnersGoOn, AtWork, InPhase
<1>2. UNCHANGED job => TableGoesOn
  BY DEF TableGoesOn, KeepsRow
<1>3. CompanyTypeOK /\ UNCHANGED company => GenerationTells
  BY DEF CompanyTypeOK, Companies, GenerationTells
<1> QED
  BY <1>1, <1>2, <1>3

LEMMA FlushedTells ==
    ASSUME CompanyTypeOK, There, NEW values \in Values, company' = Flushed(company, values)
    PROVE  GenerationTells /\ company' \in Companies
<1>1. company \in Companies /\ company.gen \in Nat /\ company.there \in {"absent", "there", "deleted"}
  BY DEF CompanyTypeOK, Companies
<1>2. /\ company'.there = company.there /\ company'.values = values
      /\ company'.gen = IF values = company.values THEN company.gen ELSE company.gen + 1
  BY <1>1 DEF Flushed, Companies
<1> DEFINE g == IF values = company.values THEN company.gen ELSE company.gen + 1
<1>3. company' \in Companies
  <2>1. g \in Nat
    BY <1>1
  <2>2. company' = [company EXCEPT !.values = values, !.gen = g]
    BY <1>1 DEF Flushed
  <2> HIDE DEF g
  <2> QED
    BY <1>1, <2>1, <2>2 DEF Companies
<1> QED
  BY <1>1, <1>2, <1>3 DEF GenerationTells

\* What administrators and other code change.
LEMMA EditsGoOn ==
    ASSUME CompanyTypeOK,
           EditFacts \/ EditAnalysis \/ DeleteCompany \/ AddCompany \/ EditSource \/ ScanReads
    PROVE  CompanyTypeOK' /\ GoesOn
<1>1. /\ company \in Companies /\ company.values \in Values /\ company.gen \in Nat
      /\ company.values.facts \in Nat /\ company.values.analysis \in Nat
      /\ origin \in [gen: Nat, active: BOOLEAN] /\ origin.gen \in Nat
      /\ edits \in 0..MaxEdits /\ MaxEdits \in Nat
  BY CompanyConstants DEF CompanyTypeOK, Companies, Values
<1>2. UNCHANGED <<job, mail, owner>>
  BY DEF EditFacts, EditAnalysis, DeleteCompany, AddCompany, EditSource, ScanReads
<1>3. edits' \in 0..MaxEdits
  BY <1>1 DEF EditFacts, EditAnalysis, DeleteCompany, AddCompany, EditSource, ScanReads, Counted
<1>4. scan' \in Int
  BY <1>1 DEF EditFacts, EditAnalysis, DeleteCompany, AddCompany, EditSource, ScanReads, CompanyTypeOK
<1>5. origin' \in [gen: Nat, active: BOOLEAN]
  BY <1>1 DEF EditFacts, EditAnalysis, DeleteCompany, AddCompany, EditSource, ScanReads
<1>6. GenerationTells /\ company' \in Companies
  <2>1. CASE EditFacts
    <3>1. [company.values EXCEPT !.facts = @ + 1] \in Values
      BY <1>1 DEF Values
    <3> QED
      BY <2>1, <3>1, FlushedTells DEF EditFacts
  <2>2. CASE EditAnalysis
    <3>1. [company.values EXCEPT !.analysis = @ + 1] \in Values
      BY <1>1 DEF Values
    <3> QED
      BY <2>2, <3>1, FlushedTells DEF EditAnalysis
  <2>3. CASE DeleteCompany
    <3>1. company' \in Companies
      BY <1>1, <2>3 DEF DeleteCompany, Companies
    <3>2. company'.there = "deleted" /\ company'.gen = company.gen /\ company'.values = company.values
      BY <1>1, <2>3 DEF DeleteCompany, Companies
    <3> QED
      BY <1>1, <3>1, <3>2 DEF GenerationTells
  <2>4. CASE AddCompany
    <3>1. company' \in Companies
      BY <1>1, <2>4 DEF AddCompany, Companies, Values
    <3>2. company.there = "absent" /\ company'.there = "there"
      BY <1>1, <2>4 DEF AddCompany, Companies
    <3> QED
      BY <3>1, <3>2 DEF GenerationTells
  <2>5. CASE UNCHANGED company
    BY <1>1, <2>5, StayGoesOn
  <2> QED
    BY <2>1, <2>2, <2>3, <2>4, <2>5 DEF EditSource, ScanReads
<1>7. CompanyTypeOK'
  BY <1>2, <1>3, <1>4, <1>5, <1>6 DEF CompanyTypeOK
<1> QED
  BY <1>2, <1>6, <1>7, StayGoesOn DEF GoesOn

\* Of what the steps of jobs and deliveries leave alone.
LEMMA AloneTypes ==
    ASSUME CompanyTypeOK, UNCHANGED <<company, origin, scan, edits>>,
           job' \in [Jobs -> JobRows], mail' \subseteq Jobs,
           owner' \in [Owners -> [job: Jobs \cup {None}, phase: Phases]],
           TableGoesOn, OwnersGoOn
    PROVE  CompanyTypeOK' /\ GoesOn
<1>1. CompanyTypeOK'
  BY DEF CompanyTypeOK
<1> QED
  BY <1>1, StayGoesOn DEF GoesOn

LEMMA TypeFacts ==
    ASSUME CompanyTypeOK
    PROVE  /\ job \in [Jobs -> JobRows] /\ mail \subseteq Jobs
           /\ owner \in [Owners -> [job: Jobs \cup {None}, phase: Phases]]
BY DEF CompanyTypeOK

\* The steps of a job without a claim, and of a delivery.
LEMMA JobsGoOn ==
    ASSUME CompanyTypeOK, NEW j \in Jobs, Publish(j) \/ Recover(j)
    PROVE  CompanyTypeOK' /\ GoesOn
<1>1. Active(j)
  BY DEF Publish, Recover, Active
<1>2. UNCHANGED <<company, origin, scan, edits, owner>> /\ mail' \subseteq Jobs
  BY TypeFacts DEF Publish, Recover
<1>3. \E r : Writes(j, r)
  <2>1. CASE job' = [job EXCEPT ![j].wait = Gap]
    BY <2>1, Bounds, FieldWrites
  <2>2. CASE \E state \in {"blocked", "stale"} : job' = Closed(j, state)
    BY <1>1, <2>2, ClosedWrites
  <2> QED
    BY <2>1, <2>2 DEF Publish, Recover
<1>4. TableGoesOn /\ job' \in [Jobs -> JobRows]
  BY <1>3, WritesGoesOn
<1> QED
  BY <1>2, <1>4, AloneTypes, StayGoesOn, TypeFacts

LEMMA DeliveryWrites ==
    ASSUME CompanyTypeOK, WorksOnItsClaim, NEW o \in Owners, AtWork(o),
           UNCHANGED <<company, origin, scan, edits, mail>>,
           UNCHANGED job \/ \E r : Writes(owner[o].job, r),
           Leave(o) \/ \E p \in Phases : Phase(o, p) /\ (p = "calling" => Pays(o))
    PROVE  CompanyTypeOK' /\ GoesOn
<1>1. owner[o].job \in Jobs
  BY DEF WorksOnItsClaim
<1>2. TableGoesOn /\ job' \in [Jobs -> JobRows]
  BY <1>1, WritesGoesOn, StayGoesOn, TypeFacts
<1>3. OwnersGoOn /\ owner' \in [Owners -> [job: Jobs \cup {None}, phase: Phases]]
  BY LeaveGoesOn, PhaseGoesOn
<1> QED
  BY <1>2, <1>3, AloneTypes, TypeFacts

LEMMA DeliveriesGoOn ==
    ASSUME CompanyTypeOK, WorksOnItsClaim, NEW o \in Owners,
           Prepare(o) \/ Check(o) \/ Cached(o) \/ Refuse(o) \/ Answer(o)
             \/ (\E c \in Configs : Admit(o, c)) \/ Fail(o)
    PROVE  CompanyTypeOK' /\ GoesOn
<1> DEFINE j == owner[o].job
<1>1. AtWork(o) /\ UNCHANGED <<company, origin, scan, edits, mail>>
  BY DEF AtWork, InPhase, Prepare, Check, Cached, Refuse, Answer, Admit, Fail, Alone
<1>2. /\ j \in Jobs /\ job[j].state \notin {"none", "queued"}
      /\ job[j].state = "running" => job[j].owner = o
  BY <1>1 DEF WorksOnItsClaim
<1>3. {"bound", "failing", "checked", "answered", "calling"} \subseteq Phases
  BY DEF Phases
<1>4. CASE Prepare(o) \/ Check(o) \/ Cached(o) \/ Refuse(o) \/ Answer(o)
  <2>1. UNCHANGED job \/ \E r : Writes(j, r)
    BY <1>2, <1>4, FieldWrites DEF Prepare, Check, Cached, Refuse, Answer
  <2>2. \E p \in Phases : Phase(o, p) /\ (p = "calling" => Pays(o))
    <3>1. \E p \in {"bound", "failing", "checked", "answered"} : Phase(o, p)
      BY <1>4 DEF Prepare, Check, Cached, Refuse, Answer
    <3> QED
      BY <1>3, <3>1
  <2> QED
    BY <1>1, <2>1, <2>2, DeliveryWrites
<1>5. ASSUME NEW c \in Configs, Admit(o, c) PROVE CompanyTypeOK' /\ GoesOn
  <2>1. /\ job[j].state = "running" /\ ~job[j].unsettled /\ c \notin job[j].tried
        /\ job' = [job EXCEPT ![j].tried = @ \cup {c}, ![j].unsettled = TRUE]
        /\ Phase(o, "calling")
    BY <1>5 DEF Admit, Admits, Calling
  <2>2. \E r : Writes(j, r)
    BY <1>2, <2>1, FieldWrites
  <2>3. job'[j].tried # job[j].tried
    <3>1. job \in [Jobs -> JobRows] /\ job[j] \in JobRows
      BY <1>2, TypeFacts
    <3>2. job'[j].tried = job[j].tried \cup {c}
      BY <1>2, <2>1, <3>1 DEF JobRows
    <3> QED
      BY <2>1, <3>2
  <2>4. Pays(o)
    BY <1>2, <2>1, <2>3 DEF Pays, Runs
  <2> QED
    BY <1>1, <1>3, <2>1, <2>2, <2>4, DeliveryWrites
<1>6. CASE Fail(o)
  <2>1. UNCHANGED job \/ \E r : Writes(j, r)
    <3>1. CASE Runs(o, j) /\ \E state \in {"stale", "blocked"} : job' = Closed(j, state)
      <4>1. Active(j)
        BY <3>1 DEF Runs, Active
      <4> QED
        BY <1>2, <3>1, <4>1, ClosedWrites
    <3> QED
      BY <1>6, <3>1 DEF Fail
  <2> QED
    BY <1>1, <1>6, <2>1, DeliveryWrites DEF Fail
<1> QED
  BY <1>4, <1>5, <1>6

LEMMA DieGoesOn ==
    ASSUME CompanyTypeOK, WorksOnItsClaim, NEW o \in Owners, Die(o)
    PROVE  CompanyTypeOK' /\ GoesOn
<1>1. AtWork(o) /\ owner[o].job \in Jobs
  BY DEF Die, AtWork, WorksOnItsClaim
<1>2. mail' \subseteq Jobs
  BY <1>1, TypeFacts DEF Die
<1> QED
  BY <1>2, AloneTypes, LeaveGoesOn, StayGoesOn, TypeFacts DEF Die

\* The result is saved on what the job has read, and on nothing else.
LEMMA FinishGoesOn ==
    ASSUME CompanyTypeOK, WorksOnItsClaim, ReadUnlessMoved, NEW o \in Owners, Finish(o)
    PROVE  CompanyTypeOK' /\ GoesOn
<1> DEFINE j == owner[o].job
           values == [company.values EXCEPT !.analysis = @ + 1]
<1>1. AtWork(o) /\ j \in Jobs
  BY DEF Finish, InPhase, AtWork, WorksOnItsClaim
<1>2. UNCHANGED <<origin, scan, mail, edits>>
  BY DEF Finish
<1>3. OwnersGoOn /\ owner' \in [Owners -> [job: Jobs \cup {None}, phase: Phases]]
  <2>1. "failing" \in Phases
    BY DEF Phases
  <2> QED
    BY <1>1, <2>1, LeaveGoesOn, PhaseGoesOn DEF Finish
<1>4. CASE UNCHANGED <<job, company>>
  BY <1>2, <1>3, <1>4, AloneTypes, StayGoesOn, TypeFacts
<1>5. CASE Runs(o, j) /\ UNCHANGED company /\ \E state \in {"blocked", "stale"} : job' = Closed(j, state)
  <2>1. Active(j)
    BY <1>5 DEF Runs, Active
  <2>2. \E r : Writes(j, r)
    BY <1>1, <1>5, <2>1, ClosedWrites
  <2> QED
    BY <1>1, <1>2, <1>3, <1>5, <2>2, AloneTypes, WritesGoesOn, TypeFacts
<1>6. CASE Runs(o, j) /\ Applies(j) /\ job' = Closed(j, "succeeded") /\ company' = Flushed(company, values)
  <2>1. There /\ company.values = job[j].read
    BY <1>1, <1>6 DEF Applies, Current, Runs, ReadUnlessMoved
  <2>2. Active(j)
    BY <1>6 DEF Runs, Active
  <2>3. \E r : Writes(j, r)
    BY <1>1, <1>6, <2>1, <2>2, ClosedWrites
  <2>4. TableGoesOn /\ job' \in [Jobs -> JobRows]
    BY <1>1, <2>3, WritesGoesOn
  <2>5. values \in Values
    BY DEF CompanyTypeOK, Companies, Values
  <2> HIDE DEF values
  <2>6. GenerationTells /\ company' \in Companies
    BY <1>6, <2>1, <2>5, FlushedTells
  <2>7. CompanyTypeOK'
    BY <1>2, <1>3, <2>4, <2>6 DEF CompanyTypeOK
  <2> QED
    BY <1>3, <2>4, <2>6, <2>7 DEF GoesOn
<1> QED
  BY <1>4, <1>5, <1>6, Zenon DEF Finish

\* Time passes.
LEMMA TickGoesOn ==
    ASSUME CompanyTypeOK, CompanyTick
    PROVE  CompanyTypeOK' /\ GoesOn
<1>1. UNCHANGED <<company, origin, scan, edits, mail, owner>>
  BY DEF CompanyTick, Alone
<1>2. ASSUME NEW j \in Jobs
      PROVE  /\ Aged(job[j]) \in JobRows
             /\ Aged(job[j]).state = job[j].state /\ Aged(job[j]).owner = job[j].owner
             /\ Aged(job[j]).gen = job[j].gen /\ Aged(job[j]).read = job[j].read
  <2> DEFINE r == job[j]
  <2>1. r \in JobRows
    BY TypeFacts
  <2>2. r.ttl \in 0..QueueLife /\ r.wait \in 0..Gap /\ r.left \in 0..RunLife
    BY <2>1 DEF JobRows
  <2>3. Less(r.ttl) \in 0..QueueLife /\ Less(r.wait) \in 0..Gap /\ Less(r.left) \in 0..RunLife
    BY <2>2, Bounds DEF Less
  <2> HIDE DEF r
  <2>4. /\ [r EXCEPT !.ttl = Less(r.ttl), !.wait = Less(r.wait)] \in JobRows
        /\ [r EXCEPT !.left = Less(r.left)] \in JobRows
    BY <2>1, <2>3, Zenon DEF JobRows
  <2>5. Aged(r) \in JobRows
    BY <2>1, <2>4, Zenon DEF Aged
  <2>6. /\ Aged(r).state = r.state /\ Aged(r).owner = r.owner
        /\ Aged(r).gen = r.gen /\ Aged(r).read = r.read
    BY <2>1 DEF Aged, JobRows
  <2> QED
    BY <2>5, <2>6 DEF r
<1>3. job' = [j \in Jobs |-> Aged(job[j])]
  BY DEF CompanyTick
<1>4. job' \in [Jobs -> JobRows]
  BY <1>2, <1>3
<1>5. TableGoesOn
  BY <1>2, <1>3 DEF TableGoesOn, KeepsRow
<1> QED
  BY <1>1, <1>4, <1>5, AloneTypes, StayGoesOn, TypeFacts

\* A job is asked for, found or claimed.
LEMMA RequestKeeps ==
    ASSUME CompanyInv, NEW j \in Refreshes, Request(j)
    PROVE  CompanyInv'
<1>1. /\ CompanyTypeOK /\ OneActiveRefresh /\ NoJobsBefore /\ WorksOnItsClaim /\ ReadUnlessMoved
      /\ j \in Jobs
  BY DEF CompanyInv, Jobs
<1>2. /\ job[j].state = "none" /\ There /\ \A k \in Refreshes : ~Active(k)
      /\ job' = [job EXCEPT ![j] = Row(0, 0)]
      /\ UNCHANGED <<company, origin, scan, mail, owner, edits>>
  BY DEF Request, MayRequest
<1>3. Row(0, 0) \in JobRows /\ Row(0, 0).state = "queued"
  BY RowTypes DEF Row, NoRow
<1>4. /\ job' \in [Jobs -> JobRows] /\ job'[j].state = "queued"
      /\ \A k \in Jobs : k # j => job'[k] = job[k]
  BY <1>1, <1>2, <1>3, JobSet
<1>5. CompanyTypeOK'
  BY <1>1, <1>2, <1>4 DEF CompanyTypeOK
<1>6. OneActiveRefresh'
  BY <1>2, <1>4 DEF OneActiveRefresh, Active, Jobs
<1>7. NoJobsBefore'
  BY <1>2 DEF NoJobsBefore, There
<1>8. WorksOnItsClaim'
  <2> SUFFICES ASSUME NEW o \in Owners, AtWork(o)'
               PROVE  /\ owner'[o].job \in Jobs
                      /\ job'[owner'[o].job].state \notin {"none", "queued"}
                      /\ job'[owner'[o].job].state = "running" => job'[owner'[o].job].owner = o
    BY DEF WorksOnItsClaim
  <2>1. AtWork(o) /\ owner'[o] = owner[o]
    BY <1>2 DEF AtWork
  <2>2. owner[o].job # j /\ owner[o].job \in Jobs
    BY <1>1, <1>2, <2>1 DEF WorksOnItsClaim
  <2> QED
    BY <1>1, <1>4, <2>1, <2>2 DEF WorksOnItsClaim
<1>9. ReadUnlessMoved'
  BY <1>1, <1>2, <1>4 DEF ReadUnlessMoved
<1> QED
  BY <1>5, <1>6, <1>7, <1>8, <1>9 DEF CompanyInv

LEMMA ScanSavesKeeps ==
    ASSUME CompanyInv, ScanSaves
    PROVE  CompanyInv' /\ SavedOnWhatWasRead /\ PaidByTheClaim
<1>1. /\ CompanyTypeOK /\ OneActiveRefresh /\ NoJobsBefore /\ WorksOnItsClaim /\ ReadUnlessMoved
      /\ company \in Companies /\ origin \in [gen: Nat, active: BOOLEAN]
  BY DEF CompanyInv, CompanyTypeOK
<1>2. UNCHANGED <<origin, mail, owner, edits>> /\ scan' = -1
  BY DEF ScanSaves
<1>3. CASE UNCHANGED <<company, job>>
  <2>1. CompanyTypeOK'
    BY <1>1, <1>2, <1>3 DEF CompanyTypeOK
  <2>2. GoesOn
    BY <1>1, <1>2, <1>3, StayGoesOn DEF GoesOn
  <2> QED
    BY <1>1, <2>1, <2>2, GoesOnKeeps, GoesOnSoundly
<1>4. CASE ~UNCHANGED <<company, job>>
  <2> DEFINE values == [NoValues EXCEPT !.facts = 1]
             r == [Row(company.gen, origin.gen) EXCEPT !.read = values]
  <2>1. /\ company.there = "absent"
        /\ company' = [company EXCEPT !.there = "there", !.values = values]
        /\ job' = [job EXCEPT ![Startup] = r]
    BY <1>4 DEF ScanSaves
  <2>2. values \in Values
    BY DEF NoValues, Values
  <2>3. Row(company.gen, origin.gen) \in JobRows /\ Row(company.gen, origin.gen).state = "queued"
    <3>1. company.gen \in Nat /\ origin.gen \in Nat
      BY <1>1 DEF Companies
    <3> QED
      BY <3>1, RowTypes DEF Row, NoRow
  <2> HIDE DEF values
  <2>4. r \in JobRows /\ r.state = "queued"
    BY <2>2, <2>3, Zenon DEF JobRows
  <2> HIDE DEF r
  <2>5. company' \in Companies /\ company'.there = "there"
    BY <1>1, <2>1, <2>2 DEF Companies
  <2>6. Startup \in Jobs /\ Startup \notin Refreshes /\ Refreshes \subseteq Jobs
    BY DEF Startup, Jobs, Refreshes
  <2>7. /\ job' \in [Jobs -> JobRows] /\ job'[Startup].state = "queued"
        /\ \A k \in Jobs : k # Startup => job'[k] = job[k]
    BY <1>1, <2>1, <2>4, <2>6, JobSet
  <2>8. \A k \in Jobs : job[k].state = "none"
    BY <1>1, <2>1 DEF NoJobsBefore
  <2>9. CompanyTypeOK'
    BY <1>1, <1>2, <2>5, <2>7 DEF CompanyTypeOK
  <2>10. OneActiveRefresh'
    BY <2>6, <2>7, <2>8 DEF OneActiveRefresh, Active
  <2>11. NoJobsBefore'
    BY <2>5 DEF NoJobsBefore
  <2>12. WorksOnItsClaim'
    BY <1>1, <1>2, <2>8 DEF WorksOnItsClaim, AtWork
  <2>13. ReadUnlessMoved'
    BY <2>7, <2>8 DEF ReadUnlessMoved
  <2>14. SavedOnWhatWasRead /\ PaidByTheClaim
    BY <1>2, <2>7, <2>8 DEF SavedOnWhatWasRead, PaidByTheClaim, InPhase
  <2> QED
    BY <2>9, <2>10, <2>11, <2>12, <2>13, <2>14 DEF CompanyInv
<1> QED
  BY <1>3, <1>4

\* The row of a claim that succeeds.
ClaimedRow(o, j) ==
    [job[j] EXCEPT !.state = "running", !.owner = o, !.ttl = 0, !.wait = 0, !.gen = company.gen,
                   !.left = IF job[j].ttl < RunLife THEN job[j].ttl ELSE RunLife,
                   !.read = company.values]

LEMMA ClaimedRowType ==
    ASSUME CompanyTypeOK, NEW o \in Owners, NEW j \in Jobs
    PROVE  /\ ClaimedRow(o, j) \in JobRows
           /\ ClaimedRow(o, j).state = "running" /\ ClaimedRow(o, j).owner = o
           /\ ClaimedRow(o, j).gen = company.gen /\ ClaimedRow(o, j).read = company.values
<1> DEFINE r == job[j]
           left == IF r.ttl < RunLife THEN r.ttl ELSE RunLife
<1>1. r \in JobRows /\ r.ttl \in 0..QueueLife
  BY TypeFacts DEF JobRows
<1>2. left \in 0..RunLife
  BY <1>1, Bounds
<1>3. company.gen \in Nat /\ company.values \in Values
  BY DEF CompanyTypeOK, Companies
<1>4. "running" \in JobStates
  BY DEF JobStates
<1> HIDE DEF r, left
<1>5. ClaimedRow(o, j) = [r EXCEPT !.state = "running", !.owner = o, !.ttl = 0, !.wait = 0,
                                   !.gen = company.gen, !.left = left, !.read = company.values]
  BY DEF ClaimedRow, r, left
<1>6. [r EXCEPT !.state = "running", !.owner = o, !.ttl = 0, !.wait = 0,
                !.gen = company.gen, !.left = left, !.read = company.values] \in JobRows
  BY <1>1, <1>2, <1>3, <1>4, Bounds, Zenon DEF JobRows
<1> QED
  BY <1>1, <1>5, <1>6 DEF JobRows

LEMMA ClaimKeeps ==
    ASSUME CompanyInv, NEW o \in Owners, NEW j \in Jobs, Claim(o, j)
    PROVE  CompanyInv' /\ SavedOnWhatWasRead /\ PaidByTheClaim
<1>1. /\ CompanyTypeOK /\ OneActiveRefresh /\ NoJobsBefore /\ WorksOnItsClaim /\ ReadUnlessMoved
      /\ job \in [Jobs -> JobRows]
      /\ owner \in [Owners -> [job: Jobs \cup {None}, phase: Phases]]
  BY TypeFacts DEF CompanyInv
<1>2. /\ UNCHANGED <<company, origin, scan, edits>> /\ mail' \subseteq Jobs
      /\ owner[o].phase = "new"
  BY <1>1, TypeFacts DEF Claim
<1>3. CASE job[j].state = "queued" /\ ~(job[j].ttl > 0 /\ Usable(j) /\ Fresh(j))
  <2>1. Active(j) /\ Leave(o) /\ \E state \in {"stale", "blocked"} : job' = Closed(j, state)
    BY <1>3 DEF Claim, Active
  <2>2. TableGoesOn /\ job' \in [Jobs -> JobRows]
    BY <1>1, <2>1, ClosedWrites, WritesGoesOn
  <2>3. CompanyTypeOK' /\ GoesOn
    BY <1>1, <1>2, <2>1, <2>2, AloneTypes, LeaveGoesOn
  <2> QED
    BY <1>1, <2>3, GoesOnKeeps, GoesOnSoundly
<1>4. CASE job[j].state # "queued"
  <2>1. Leave(o) /\ UNCHANGED job
    BY <1>4 DEF Claim
  <2>2. CompanyTypeOK' /\ GoesOn
    BY <1>1, <1>2, <2>1, AloneTypes, LeaveGoesOn, StayGoesOn
  <2> QED
    BY <1>1, <2>2, GoesOnKeeps, GoesOnSoundly
<1>5. CASE job[j].state = "queued" /\ job[j].ttl > 0 /\ Usable(j) /\ Fresh(j)
  <2> DEFINE r == ClaimedRow(o, j)
  <2>1. job' = [job EXCEPT ![j] = r]
    BY <1>1, <1>5 DEF Claim, ClaimedRow
  <2>2. owner' = [owner EXCEPT ![o] = [job |-> j, phase |-> "claimed"]]
    BY <1>5 DEF Claim
  <2>3. /\ r \in JobRows /\ r.state = "running" /\ r.owner = o
        /\ r.gen = company.gen /\ r.read = company.values
    BY <1>1, ClaimedRowType
  <2> HIDE DEF r
  <2>4. /\ job' \in [Jobs -> JobRows] /\ job'[j] = r
        /\ \A k \in Jobs : k # j => job'[k] = job[k]
    BY <1>1, <2>1, <2>3, JobSet
  <2>5. /\ owner' \in [Owners -> [job: Jobs \cup {None}, phase: Phases]]
        /\ owner'[o].job = j /\ owner'[o].phase = "claimed"
        /\ \A p \in Owners : p # o => owner'[p] = owner[p]
    BY <1>1, <2>2 DEF Phases
  <2>6. CompanyTypeOK'
    BY <1>1, <1>2, <2>4, <2>5 DEF CompanyTypeOK
  <2>7. OneActiveRefresh'
    <3>1. \A k \in Jobs : Active(k)' => Active(k)
      BY <1>5, <2>4 DEF Active
    <3> QED
      BY <1>1, <3>1 DEF OneActiveRefresh, Jobs
  <2>8. NoJobsBefore'
    BY <1>1, <1>2, <1>5 DEF NoJobsBefore
  <2>9. WorksOnItsClaim'
    <3> SUFFICES ASSUME NEW p \in Owners, AtWork(p)'
                 PROVE  /\ owner'[p].job \in Jobs
                        /\ job'[owner'[p].job].state \notin {"none", "queued"}
                        /\ job'[owner'[p].job].state = "running" => job'[owner'[p].job].owner = p
      BY DEF WorksOnItsClaim
    <3>1. CASE p = o
      BY <2>3, <2>4, <2>5, <3>1
    <3>2. CASE p # o
      <4>1. AtWork(p) /\ owner'[p] = owner[p]
        BY <2>5, <3>2 DEF AtWork
      <4>2. owner[p].job # j
        BY <1>1, <1>5, <4>1 DEF WorksOnItsClaim
      <4> QED
        BY <1>1, <2>4, <4>1, <4>2 DEF WorksOnItsClaim
    <3> QED
      BY <3>1, <3>2
  <2>10. ReadUnlessMoved'
    <3>1. company.gen \in Nat
      BY <1>1 DEF CompanyTypeOK, Companies
    <3> QED
      BY <1>1, <1>2, <2>3, <2>4, <3>1 DEF ReadUnlessMoved
  <2>11. SavedOnWhatWasRead /\ PaidByTheClaim
    <3>1. SavedOnWhatWasRead
      BY <2>3, <2>4 DEF SavedOnWhatWasRead
    <3>2. PaidByTheClaim
      BY <2>5 DEF PaidByTheClaim, InPhase
    <3> QED
      BY <3>1, <3>2
  <2> QED
    BY <2>6, <2>7, <2>8, <2>9, <2>10, <2>11 DEF CompanyInv
<1> QED
  BY <1>3, <1>4, <1>5

LEMMA CompanyStep ==
    ASSUME CompanyInv, [CompanyNext]_companyVars
    PROVE  CompanyInv' /\ (companyVars' # companyVars => SavedOnWhatWasRead /\ PaidByTheClaim)
<1>1. CompanyTypeOK /\ WorksOnItsClaim /\ ReadUnlessMoved
  BY DEF CompanyInv
<1>2. CompanyTypeOK' /\ GoesOn => CompanyInv' /\ SavedOnWhatWasRead /\ PaidByTheClaim
  BY <1>1, GoesOnKeeps, GoesOnSoundly
<1>3. CASE EditFacts \/ EditAnalysis \/ DeleteCompany \/ AddCompany \/ EditSource \/ ScanReads
  BY <1>1, <1>2, <1>3, EditsGoOn
<1>4. CASE ScanSaves
  BY <1>4, ScanSavesKeeps
<1>5. ASSUME NEW j \in Refreshes, Request(j) PROVE CompanyInv' /\ SavedOnWhatWasRead /\ PaidByTheClaim
  <2>1. CompanyInv'
    BY <1>5, RequestKeeps
  <2>2. owner' = owner
    BY <1>5 DEF Request
  <2>3. \A k \in Jobs : job'[k].state = "succeeded" => job[k].state = "succeeded"
    <3>1. job' = [job EXCEPT ![j] = Row(0, 0)] /\ Row(0, 0) \in JobRows /\ Row(0, 0).state = "queued"
      BY <1>5, RowTypes DEF Request, Row, NoRow
    <3> QED
      BY <1>1, <1>5, <3>1, JobSet DEF Jobs
  <2> QED
    BY <2>1, <2>2, <2>3 DEF SavedOnWhatWasRead, PaidByTheClaim, InPhase
<1>6. ASSUME NEW j \in Jobs, Publish(j) \/ Recover(j)
      PROVE  CompanyInv' /\ SavedOnWhatWasRead /\ PaidByTheClaim
  BY <1>1, <1>2, <1>6, JobsGoOn
<1>7. ASSUME NEW j \in Jobs, NEW o \in Owners, Claim(o, j)
      PROVE  CompanyInv' /\ SavedOnWhatWasRead /\ PaidByTheClaim
  BY <1>7, ClaimKeeps
<1>8. ASSUME NEW o \in Owners,
             Prepare(o) \/ Check(o) \/ Cached(o) \/ Refuse(o) \/ Answer(o)
               \/ (\E c \in Configs : Admit(o, c)) \/ Fail(o)
      PROVE  CompanyInv' /\ SavedOnWhatWasRead /\ PaidByTheClaim
  BY <1>1, <1>2, <1>8, DeliveriesGoOn
<1>9. ASSUME NEW o \in Owners, Finish(o) \/ Die(o)
      PROVE  CompanyInv' /\ SavedOnWhatWasRead /\ PaidByTheClaim
  BY <1>1, <1>2, <1>9, FinishGoesOn, DieGoesOn
<1>10. CASE CompanyTick
  BY <1>1, <1>2, <1>10, TickGoesOn
<1>11. CASE UNCHANGED companyVars
  <2>1. CompanyTypeOK' /\ GoesOn
    BY <1>1, <1>11, AloneTypes, StayGoesOn, TypeFacts DEF companyVars
  <2> QED
    BY <1>2, <2>1
<1> QED
  BY <1>3, <1>4, <1>5, <1>6, <1>7, <1>8, <1>9, <1>10, <1>11 DEF CompanyNext

----------------------------------------------------------------------------
\* The fetches of a run.

Frames == [address: Addresses, seen: SUBSET Addresses, waits: BOOLEAN]

\* A host is asked no faster than the rules read from any of its origins say, and
\* the helper counts every request.
PaceKnowsTheRules == \A o \in Origins : robots[o].delay <= pace[o.host].delay

FetchInv == FetchTypeOK /\ walk \in Seq(Frames) /\ PaceKnowsTheRules /\ sent = spent.requests

\* The longest distance that any rule asks for exists.
LEMMA LongAgoIs == LongAgo \in Nat /\ \A d \in Delays \cup {MinInterval} : d <= LongAgo
<1> DEFINE S == Delays \cup {MinInterval}
<1>1. S \subseteq Nat /\ IsFiniteSet(S) /\ S # {}
  BY FetchConstants, FS_AddElement
<1> HIDE DEF S
<1>2. Max(S) \in S /\ \A n \in S : n <= Max(S)
  BY <1>1, MaxOfNats
<1> QED
  BY <1>1, <1>2 DEF LongAgo, S

Spent == [requests: 0..MaxRequests, bytes: 0..MaxBytes]
Paces == [Hosts -> [since: 0..LongAgo, cool: Nat, delay: Delays]]

LEMMA WalkFacts ==
    ASSUME FetchInv
    PROVE  /\ walk \in Seq(Frames) /\ Len(walk) \in 0..2
           /\ \A i \in 1..Len(walk) : walk[i] \in Frames
           /\ Following => /\ Len(walk) \in 1..2 /\ Here \in Frames /\ walk[1] \in Frames
                           /\ Asked \in Addresses /\ Asked.origin \in Origins /\ HostHere \in Hosts
           /\ Len(walk) = 2 => Following
           /\ walk[1] \in Frames => walk[1].address.origin \in Origins
<1>1. walk \in Seq(Frames) /\ Len(walk) <= 2
  BY DEF FetchInv, FetchTypeOK
<1>2. Len(walk) \in 0..2 /\ \A i \in 1..Len(walk) : walk[i] \in Frames
  <2>1. Len(walk) \in Nat
    BY <1>1, LenProperties
  <2>2. \A i \in 1..Len(walk) : walk[i] \in Frames
    BY <1>1, ElementOfSeq
  <2>3. \A n \in Nat : n <= 2 => n \in 0..2
    OBVIOUS
  <2>4. Len(walk) \in 0..2
    BY <1>1, <2>1, <2>3, Zenon
  <2> QED
    BY <2>2, <2>4
<1>3. Following => Len(walk) \in 1..2
  BY <1>1, <1>2, EmptySeq, LenProperties DEF Following
<1>4. Len(walk) = 2 => Following
  BY EmptySeq DEF Following
<1>5. \A f \in Frames : f.address \in Addresses /\ f.address.origin \in Origins
  BY DEF Frames, Addresses
<1> QED
  BY <1>1, <1>2, <1>3, <1>4, <1>5 DEF Here, Asked, HostHere, Hosts

\* Where a walk may go.
LEMMA WalkSteps ==
    ASSUME FetchInv
    PROVE  /\ <<>> \in Seq(Frames) /\ Len(<<>>) = 0
           /\ \A f \in Frames : /\ <<f>> \in Seq(Frames) /\ Len(<<f>>) = 1
                                /\ Append(walk, f) \in Seq(Frames) /\ Len(Append(walk, f)) = Len(walk) + 1
                                /\ Following => /\ [walk EXCEPT ![Len(walk)] = f] \in Seq(Frames)
                                                /\ Len([walk EXCEPT ![Len(walk)] = f]) = Len(walk)
<1>1. walk \in Seq(Frames) /\ Len(walk) \in 0..2 /\ (Following => Len(walk) \in 1..2)
  BY WalkFacts
<1>2. <<>> \in Seq(Frames) /\ Len(<<>>) = 0
  BY EmptySeq
<1>3. ASSUME NEW f \in Frames
      PROVE  /\ <<f>> \in Seq(Frames) /\ Len(<<f>>) = 1
             /\ Append(walk, f) \in Seq(Frames) /\ Len(Append(walk, f)) = Len(walk) + 1
             /\ Following => /\ [walk EXCEPT ![Len(walk)] = f] \in Seq(Frames)
                             /\ Len([walk EXCEPT ![Len(walk)] = f]) = Len(walk)
  <2>1. <<f>> \in Seq(Frames) /\ Len(<<f>>) = 1
    OBVIOUS
  <2>2. Append(walk, f) \in Seq(Frames) /\ Len(Append(walk, f)) = Len(walk) + 1
    BY <1>1, AppendProperties
  <2>3. ASSUME Following
        PROVE  /\ [walk EXCEPT ![Len(walk)] = f] \in Seq(Frames)
               /\ Len([walk EXCEPT ![Len(walk)] = f]) = Len(walk)
    <3>1. Len(walk) \in 1..Len(walk)
      BY <1>1, <2>3
    <3> QED
      BY <1>1, <3>1, ExceptSeq
  <2> QED
    BY <2>1, <2>2, <2>3
<1> QED
  BY <1>2, <1>3

LEMMA FrameType ==
    /\ \A a \in Addresses : Frame(a) \in Frames
    /\ \A f \in Frames : [f EXCEPT !.waits = TRUE] \in Frames
    /\ \A o \in Origins, p \in Paths : [origin |-> o, path |-> p] \in Addresses
BY DEF Frame, Frames, Addresses

\* What a step leaves, put together.
LEMMA FetchKept ==
    ASSUME fetcher' \in [left: 0..MaxSeconds, closed: BOOLEAN, helper: BOOLEAN],
           spent' \in Spent, pace' \in Paces, robots' \in [Origins -> Rules \cup {Unread}],
           walk' \in Seq(Frames), Len(walk') <= 2, PaceKnowsTheRules', sent' = spent'.requests
    PROVE  FetchInv'
<1>1. \A i \in 1..Len(walk') : walk'[i] \in Frames
  BY ElementOfSeq
<1> QED
  BY <1>1 DEF FetchInv, FetchTypeOK, Spent, Paces, Frames

LEMMA FetchFacts ==
    ASSUME FetchInv
    PROVE  /\ fetcher \in [left: 0..MaxSeconds, closed: BOOLEAN, helper: BOOLEAN]
           /\ spent \in Spent /\ pace \in Paces /\ robots \in [Origins -> Rules \cup {Unread}]
           /\ walk \in Seq(Frames) /\ Len(walk) <= 2
           /\ \A o \in Origins : robots[o].delay \in Nat /\ pace[o.host].delay \in Nat
<1>1. /\ fetcher \in [left: 0..MaxSeconds, closed: BOOLEAN, helper: BOOLEAN]
      /\ spent \in Spent /\ pace \in Paces /\ robots \in [Origins -> Rules \cup {Unread}]
      /\ walk \in Seq(Frames) /\ Len(walk) <= 2
  BY DEF FetchInv, FetchTypeOK, Spent, Paces
<1>2. \A rules \in Rules \cup {Unread} : rules.delay \in Nat
  <2> TAKE rules \in Rules \cup {Unread}
  <2>1. CASE rules \in Rules
    BY <2>1, FetchConstants DEF Rules
  <2>2. CASE rules = Unread
    BY <2>2 DEF Unread
  <2> QED
    BY <2>1, <2>2
<1>3. \A h \in Hosts : pace[h].delay \in Nat
  BY <1>1, FetchConstants DEF Paces
<1> QED
  BY <1>1, <1>2, <1>3 DEF Hosts

LEMMA FetchInitially == FetchInit => FetchInv
<1> SUFFICES ASSUME FetchInit PROVE FetchInv
  OBVIOUS
<1>1. /\ walk = <<>> /\ walk \in Seq(Frames) /\ Len(walk) = 0
      /\ sent = 0 /\ spent.requests = 0
  BY EmptySeq DEF FetchInit
<1>2. 0 \in Delays /\ LongAgo \in 0..LongAgo
  BY LongAgoIs, FetchConstants
<1>3. /\ fetcher \in [left: 0..MaxSeconds, closed: BOOLEAN, helper: BOOLEAN]
      /\ spent \in [requests: 0..MaxRequests, bytes: 0..MaxBytes]
  BY FetchConstants DEF FetchInit
<1>4. pace \in [Hosts -> [since: 0..LongAgo, cool: Nat, delay: Delays]]
  BY <1>2 DEF FetchInit
<1>5. robots \in [Origins -> Rules \cup {Unread}]
  BY DEF FetchInit
<1>6. PaceKnowsTheRules
  BY FetchConstants DEF FetchInit, PaceKnowsTheRules, Hosts, Unread
<1> QED
  BY <1>1, <1>3, <1>4, <1>5, <1>6 DEF FetchInv, FetchTypeOK

\* The pace after a step.
LEMMA PaceSteps ==
    ASSUME FetchInv, NEW h \in Hosts
    PROVE  /\ [pace EXCEPT ![h].since = 0] \in Paces
           /\ \A n \in Nat : [[pace EXCEPT ![h].since = 0] EXCEPT ![h].cool = n] \in Paces
           /\ \A k \in Hosts : [pace EXCEPT ![h].since = 0][k].delay = pace[k].delay
           /\ \A n \in Nat : \A k \in Hosts :
                [[pace EXCEPT ![h].since = 0] EXCEPT ![h].cool = n][k].delay = pace[k].delay
<1>1. pace \in Paces /\ 0 \in 0..LongAgo
  BY FetchFacts, LongAgoIs
<1>2. [pace EXCEPT ![h].since = 0] \in Paces
  BY <1>1 DEF Paces
<1>3. \A k \in Hosts : [pace EXCEPT ![h].since = 0][k].delay = pace[k].delay
  BY <1>1 DEF Paces
<1>4. ASSUME NEW n \in Nat, NEW p \in Paces
      PROVE  /\ [p EXCEPT ![h].cool = n] \in Paces
             /\ \A k \in Hosts : [p EXCEPT ![h].cool = n][k].delay = p[k].delay
  BY DEF Paces
<1> QED
  BY <1>2, <1>3, <1>4

\* The steps of a fetch.
LEMMA GoesStep ==
    ASSUME FetchInv,
           \/ \E o \in Origins : FetchPage(o)
           \/ AskRobots \/ Denied \/ Refused \/ Expire \/ HelperBreaks \/ CloseFetcher
    PROVE  FetchInv'
<1>1. UNCHANGED <<spent, pace, robots, sent>>
  BY DEF FetchPage, AskRobots, Denied, Refused, Expire, HelperBreaks, CloseFetcher
<1>2. fetcher' \in [left: 0..MaxSeconds, closed: BOOLEAN, helper: BOOLEAN]
  <2>1. fetcher' \in {fetcher, Shut, [fetcher EXCEPT !.helper = TRUE]}
    BY DEF FetchPage, AskRobots, Denied, Refused, Expire, HelperBreaks, CloseFetcher, Shut
  <2> QED
    BY <2>1, FetchFacts DEF Shut
<1>3. walk' \in Seq(Frames) /\ Len(walk') <= 2
  <2>1. CASE walk' = walk
    BY <2>1, FetchFacts
  <2>2. CASE walk' = <<>>
    BY <2>2, WalkSteps
  <2>3. ASSUME NEW a \in Addresses, walk' = <<Frame(a)>> PROVE walk' \in Seq(Frames) /\ Len(walk') <= 2
    BY <2>3, WalkSteps, FrameType
  <2>4. CASE AskRobots
    <3> DEFINE f == Frame([origin |-> Asked.origin, path |-> "robots"])
    <3>1. Following /\ ~ForRobots /\ walk' = Append(walk, f)
      BY <2>4 DEF AskRobots
    <3>2. f \in Frames
      BY <3>1, WalkFacts, FrameType DEF Paths
    <3> HIDE DEF f
    <3>3. walk' \in Seq(Frames) /\ Len(walk') = Len(walk) + 1
      BY <3>1, <3>2, WalkSteps
    <3>4. Len(walk) \in 1..2 /\ Len(walk) # 2
      BY <3>1, WalkFacts DEF ForRobots
    <3>5. \A n \in 1..2 : n # 2 => n + 1 <= 2
      OBVIOUS
    <3> QED
      BY <3>3, <3>4, <3>5, Zenon
  <2>5. ASSUME NEW o \in Origins, FetchPage(o)
        PROVE  walk' = walk \/ \E a \in Addresses : walk' = <<Frame(a)>>
    BY <2>5, FrameType DEF FetchPage, Paths
  <2> QED
    BY <2>1, <2>2, <2>3, <2>4, <2>5 DEF Denied, Refused, Expire, HelperBreaks, CloseFetcher, Rejected
<1>4. PaceKnowsTheRules' /\ sent' = spent'.requests
  BY <1>1 DEF FetchInv, PaceKnowsTheRules
<1> QED
  BY <1>1, <1>2, <1>3, <1>4, FetchFacts, FetchKept

LEMMA SendStep == ASSUME FetchInv, SendRequest PROVE FetchInv'
<1>1. /\ Following /\ spent.requests < MaxRequests
      /\ spent' = [spent EXCEPT !.requests = @ + 1]
      /\ pace' = [pace EXCEPT ![HostHere].since = 0]
      /\ sent' = sent + 1
      /\ walk' = [walk EXCEPT ![Len(walk)].waits = TRUE]
      /\ UNCHANGED <<fetcher, robots>>
  BY DEF SendRequest, BudgetLeft
<1>2. spent \in Spent /\ sent = spent.requests /\ MaxRequests \in Nat
  BY FetchFacts, FetchConstants DEF FetchInv
<1>3. spent' \in Spent /\ sent' = spent'.requests
  BY <1>1, <1>2 DEF Spent
<1>4. HostHere \in Hosts /\ Here \in Frames
  BY <1>1, WalkFacts
<1>5. pace' \in Paces /\ \A k \in Hosts : pace'[k].delay = pace[k].delay
  BY <1>1, <1>4, PaceSteps
<1>6. PaceKnowsTheRules'
  BY <1>1, <1>5 DEF FetchInv, PaceKnowsTheRules, Hosts
<1>7. walk' \in Seq(Frames) /\ Len(walk') <= 2
  <2> DEFINE f == [Here EXCEPT !.waits = TRUE]
  <2>1. f \in Frames
    BY <1>4, FrameType
  <2>2. walk' = [walk EXCEPT ![Len(walk)] = f]
    BY <1>1 DEF Here
  <2> HIDE DEF f
  <2> QED
    BY <1>1, <2>1, <2>2, WalkSteps, FetchFacts
<1> QED
  BY <1>1, <1>3, <1>5, <1>6, <1>7, FetchFacts, FetchKept

LEMMA BytesStep ==
    ASSUME FetchInv, NEW n \in spent.bytes..MaxBytes, spent' = [spent EXCEPT !.bytes = n]
    PROVE  spent' \in Spent /\ spent'.requests = spent.requests
<1>1. spent \in Spent /\ spent.bytes \in Nat
  BY FetchFacts DEF Spent
<1>2. n \in 0..MaxBytes
  BY <1>1
<1> QED
  BY <1>1, <1>2 DEF Spent

LEMMA AnswerStep == ASSUME FetchInv, Redirected \/ Fails \/ PageComes PROVE FetchInv'
<1>1. Answered /\ UNCHANGED <<fetcher, robots, sent>> /\ HostHere \in Hosts
  BY WalkFacts DEF Redirected, Fails, PageComes, Answered
<1>2. spent' \in Spent /\ spent'.requests = spent.requests
  BY BytesStep, FetchFacts DEF Redirected, Fails, PageComes
<1>3. pace' \in Paces /\ \A k \in Hosts : pace'[k].delay = pace[k].delay
  <2>1. CASE pace' = Rested \/ UNCHANGED pace
    BY <1>1, <2>1, PaceSteps, FetchFacts DEF Rested
  <2>2. ASSUME NEW hint \in Hints, pace' = [Rested EXCEPT ![HostHere].cool = hint]
        PROVE  pace' \in Paces /\ \A k \in Hosts : pace'[k].delay = pace[k].delay
    <3>1. hint \in Nat
      BY FetchConstants
    <3>2. pace' = [[pace EXCEPT ![HostHere].since = 0] EXCEPT ![HostHere].cool = hint]
      BY <2>2 DEF Rested
    <3>3. HostHere \in Hosts
      BY <1>1
    <3> QED
      BY <3>1, <3>2, <3>3, PaceSteps, ZenonT(60)
  <2> QED
    BY <2>1, <2>2 DEF Redirected, Fails, PageComes
<1>4. PaceKnowsTheRules' /\ sent' = spent'.requests
  BY <1>1, <1>2, <1>3 DEF FetchInv, PaceKnowsTheRules, Hosts
<1>5. walk' \in Seq(Frames) /\ Len(walk') <= 2
  <2>1. CASE walk' = <<>>
    BY <2>1, WalkSteps
  <2>2. ASSUME NEW a \in Addresses,
               walk' = [walk EXCEPT ![Len(walk)] =
                           [address |-> a, seen |-> Here.seen \cup {a}, waits |-> FALSE]]
        PROVE  walk' \in Seq(Frames) /\ Len(walk') <= 2
    <3> DEFINE f == [address |-> a, seen |-> Here.seen \cup {a}, waits |-> FALSE]
    <3>1. f \in Frames
      BY <1>1, WalkFacts DEF Answered, Frames
    <3> HIDE DEF f
    <3>2. walk' = [walk EXCEPT ![Len(walk)] = f]
      BY <2>2 DEF f
    <3> QED
      BY <1>1, <3>1, <3>2, WalkSteps, FetchFacts DEF Answered
  <2> QED
    BY <2>1, <2>2 DEF Redirected, Fails, PageComes, Rejected
<1> QED
  BY <1>1, <1>2, <1>3, <1>4, <1>5, FetchFacts, FetchKept

LEMMA RobotsStep == ASSUME FetchInv, RobotsCome PROVE FetchInv'
<1> DEFINE o == walk[1].address.origin
<1>1. Answered /\ Len(walk) = 2 /\ walk' = <<walk[1]>> /\ UNCHANGED <<fetcher, sent>>
  BY DEF RobotsCome
<1>2. o \in Origins /\ o.host \in Hosts /\ HostHere \in Hosts /\ walk[1] \in Frames
  BY <1>1, WalkFacts DEF Answered, Hosts
<1>3. PICK rules \in Rules \cup {Unbounded} : Learn(o, rules)
  BY DEF RobotsCome
<1>4. rules \in Rules /\ rules.delay \in Delays /\ rules.delay \in Nat
  <2>1. CASE rules \in Rules
    BY <2>1, FetchConstants DEF Rules
  <2>2. CASE rules = Unbounded
    BY <2>2, FetchConstants DEF Rules, Unbounded
  <2> QED
    BY <2>1, <2>2
<1>5. spent' \in Spent /\ spent'.requests = spent.requests
  BY BytesStep DEF RobotsCome
<1>6. walk' \in Seq(Frames) /\ Len(walk') <= 2
  BY <1>1, <1>2, WalkSteps
<1> HIDE DEF o
<1>7. Rested \in Paces /\ \A k \in Hosts : Rested[k].delay = pace[k].delay
  BY <1>2, PaceSteps DEF Rested
<1> DEFINE longer == Bigger(Rested[o.host].delay, rules.delay)
<1>8. longer \in Delays /\ longer \in Nat /\ rules.delay <= longer /\ Rested[o.host].delay <= longer
  <2>1. Rested[o.host].delay \in Delays /\ Rested[o.host].delay \in Nat
    BY <1>2, <1>7, FetchConstants DEF Paces
  <2> QED
    BY <1>4, <2>1 DEF Bigger
<1>9. robots' = [robots EXCEPT ![o] = rules] /\ pace' = [Rested EXCEPT ![o.host].delay = longer]
  BY <1>3 DEF Learn
<1> HIDE DEF longer
<1>10. /\ pace' \in Paces /\ pace'[o.host].delay = longer
       /\ \A k \in Hosts : k # o.host => pace'[k].delay = pace[k].delay
  BY <1>2, <1>7, <1>8, <1>9 DEF Paces
<1>11. robots' \in [Origins -> Rules \cup {Unread}]
  BY <1>4, <1>9, FetchFacts
<1>12. PaceKnowsTheRules'
  <2> SUFFICES ASSUME NEW p \in Origins PROVE robots'[p].delay <= pace'[p.host].delay
    BY DEF PaceKnowsTheRules
  <2>1. /\ robots[p].delay \in Nat /\ pace[p.host].delay \in Nat /\ p.host \in Hosts
        /\ robots[p].delay <= pace[p.host].delay
    BY FetchFacts DEF FetchInv, PaceKnowsTheRules, Hosts
  <2>2. robots'[p].delay = IF p = o THEN rules.delay ELSE robots[p].delay
    BY <1>9, FetchFacts
  <2>3. pace'[p.host].delay = IF p.host = o.host THEN longer ELSE pace[p.host].delay
    BY <1>10, <2>1
  <2>4. p.host = o.host => pace[p.host].delay <= longer
    BY <1>2, <1>7, <1>8
  <2> QED
    BY <1>8, <2>1, <2>2, <2>3, <2>4
<1>13. sent' = spent'.requests
  BY <1>1, <1>5 DEF FetchInv
<1> QED
  BY <1>1, <1>5, <1>6, <1>10, <1>11, <1>12, <1>13, FetchFacts, FetchKept

LEMMA FetchTickStep == ASSUME FetchInv, FetchTick PROVE FetchInv'
<1>1. /\ fetcher.left > 0 /\ fetcher' = [fetcher EXCEPT !.left = @ - 1]
      /\ pace' = [h \in Hosts |-> [pace[h] EXCEPT !.since = CountUp(@), !.cool = CountDown(@)]]
      /\ UNCHANGED <<spent, robots, walk, sent>>
  BY DEF FetchTick
<1>2. fetcher' \in [left: 0..MaxSeconds, closed: BOOLEAN, helper: BOOLEAN]
  <2>1. fetcher \in [left: 0..MaxSeconds, closed: BOOLEAN, helper: BOOLEAN]
    BY FetchFacts
  <2>2. fetcher.left \in 0..MaxSeconds /\ fetcher.left > 0 /\ MaxSeconds \in Nat
    BY <1>1, <2>1, FetchConstants
  <2>3. \A n \in 0..MaxSeconds : n > 0 => n - 1 \in 0..MaxSeconds
    BY <2>2
  <2>4. fetcher.left - 1 \in 0..MaxSeconds
    BY <2>2, <2>3, Zenon
  <2> QED
    BY <1>1, <2>1, <2>4
<1>3. ASSUME NEW h \in Hosts
      PROVE  /\ pace'[h] \in [since: 0..LongAgo, cool: Nat, delay: Delays]
             /\ pace'[h].delay = pace[h].delay
  <2> DEFINE r == pace[h]
  <2>1. r \in [since: 0..LongAgo, cool: Nat, delay: Delays]
    BY FetchFacts DEF Paces
  <2>2. CountUp(r.since) \in 0..LongAgo /\ CountDown(r.cool) \in Nat
    BY <2>1, LongAgoIs DEF CountUp, CountDown
  <2>3. pace'[h] = [r EXCEPT !.since = CountUp(r.since), !.cool = CountDown(r.cool)]
    BY <1>1
  <2> HIDE DEF r
  <2>4. pace'[h] \in [since: 0..LongAgo, cool: Nat, delay: Delays] /\ pace'[h].delay = r.delay
    BY <2>1, <2>2, <2>3
  <2> QED
    BY <2>4 DEF r
<1>4. pace' \in Paces
  BY <1>1, <1>3 DEF Paces
<1>5. PaceKnowsTheRules'
  BY <1>1, <1>3 DEF FetchInv, PaceKnowsTheRules, Hosts
<1>6. sent' = spent'.requests
  BY <1>1 DEF FetchInv
<1> QED
  BY <1>1, <1>2, <1>4, <1>5, <1>6, FetchFacts, FetchKept

LEMMA FetchStep == ASSUME FetchInv, [FetchNext]_fetchVars PROVE FetchInv'
<1>1. CASE UNCHANGED fetchVars
  BY <1>1 DEF fetchVars, FetchInv, FetchTypeOK, PaceKnowsTheRules
<1> QED
  BY <1>1, GoesStep, SendStep, AnswerStep, RobotsStep, FetchTickStep DEF FetchNext

\* What a step that sends has looked at, and where one page leads to another.
LEMMA PoliteStep ==
    ASSUME FetchInv, [FetchNext]_fetchVars
    PROVE  KeepsItsDistance /\ AsksOnlyWhatIsAllowed /\ StaysSecure
<1>1. sent' > sent => SendRequest
  <2>1. sent \in Nat
    BY FetchFacts DEF FetchInv, Spent
  <2>2. SendRequest \/ sent' = sent
    BY Zenon DEF FetchNext, fetchVars, FetchPage, AskRobots, Denied, Refused, Redirected,
       Fails, PageComes, RobotsCome, Expire, HelperBreaks, CloseFetcher, FetchTick
  <2> QED
    BY <2>1, <2>2
<1>2. KeepsItsDistance
  <2> SUFFICES ASSUME SendRequest, NEW o \in Origins, o.host = HostHere
               PROVE  pace[HostHere].since >= robots[o].delay
    BY <1>1 DEF KeepsItsDistance
  <2>1. /\ pace[HostHere].since >= Interval(HostHere) /\ HostHere \in Hosts
        /\ pace[HostHere].since \in Nat /\ pace[HostHere].delay \in Nat /\ robots[o].delay \in Nat
        /\ robots[o].delay <= pace[HostHere].delay /\ MinInterval \in Nat
    BY WalkFacts, FetchFacts, LongAgoIs, FetchConstants
       DEF SendRequest, FetchInv, PaceKnowsTheRules, Paces
  <2> QED
    BY <2>1 DEF Interval, Bigger
<1>3. AsksOnlyWhatIsAllowed
  BY <1>1 DEF AsksOnlyWhatIsAllowed, SendRequest, MaySend
<1>4. StaysSecure
  <2> SUFFICES ASSUME Len(walk) = 1, Len(walk') = 1, walk[1].address.origin.secure
               PROVE  walk'[1].address.origin.secure
    BY DEF StaysSecure
  <2>1. walk \in Seq(Frames) /\ walk # <<>> /\ Following /\ walk[1] \in Frames /\ Here = walk[1]
    BY WalkFacts, EmptySeq DEF Following, Here
  <2>2. walk' # <<>>
    <3>1. Len(<<>>) = 0
      BY EmptySeq
    <3> QED
      BY <3>1
  <2>3. CASE walk' = walk
    BY <2>3
  <2>4. CASE SendRequest
    BY <2>1, <2>4 DEF SendRequest, Frames
  <2>5. CASE Redirected
    <3>1. PICK a \in Addresses :
             /\ a.origin.secure
             /\ walk' = [walk EXCEPT ![1] = [address |-> a, seen |-> Here.seen \cup {a}, waits |-> FALSE]]
      BY <2>1, <2>2, <2>5 DEF Redirected, Asked
    <3> QED
      BY <2>1, <3>1
  <2>6. CASE AskRobots
    <3>1. Len(walk') = Len(walk) + 1
      BY <2>1, <2>6, WalkSteps, WalkFacts, FrameType DEF AskRobots, Paths
    <3> QED
      BY <3>1
  <2>7. SendRequest \/ Redirected \/ AskRobots \/ walk' = walk \/ walk' = <<>> \/ ~Following \/ Len(walk) = 2
    BY Zenon DEF FetchNext, fetchVars, FetchPage, Denied, Refused, Fails,
       PageComes, RobotsCome, Expire, HelperBreaks, CloseFetcher, FetchTick, Rejected
  <2>8. Len(walk) # 2
    OBVIOUS
  <2> QED
    BY <2>1, <2>2, <2>3, <2>4, <2>5, <2>6, <2>7, <2>8
<1> QED
  BY <1>2, <1>3, <1>4

----------------------------------------------------------------------------
\* The order of the routes.

LEMMA BeforeIsAnOrder ==
    ASSUME CallConstants, NEW r \in Routes, NEW s \in Routes
    PROVE  /\ Before(r, s) => ~Before(s, r)
           /\ r # s => Before(r, s) \/ Before(s, r)
           /\ ~Before(r, r)
           /\ \A t \in Routes : Before(r, s) /\ Before(s, t) => Before(r, t)
<1>1. \A t \in Routes : /\ t.priority \in Nat /\ t.cost \in Nat /\ t.id \in Nat
  BY DEF CallConstants
<1>2. r.id = s.id => r = s
  BY DEF CallConstants
<1>. QED
  BY <1>1, <1>2 DEF Before

\* The routes before one, among some.
Ahead(routes, r) == {s \in routes : Before(s, r)}

\* Every one of some routes has a place of its own in their order, and it
\* comes after those before it.
LEMMA OrderHolds ==
    ASSUME CallConstants, NEW routes, routes \subseteq Routes
    PROVE  /\ Cardinality(routes) \in Nat
           /\ InOrder(routes) \in Seq(routes)
           /\ Len(InOrder(routes)) = Cardinality(routes)
           /\ \A r \in routes : \E k \in 1..Cardinality(routes) : InOrder(routes)[k] = r
           /\ \A i, k \in 1..Cardinality(routes) :
                  i < k <=> Before(InOrder(routes)[i], InOrder(routes)[k])
<1>. DEFINE n == Cardinality(routes)
            place == [r \in routes |-> Cardinality(Ahead(routes, r)) + 1]
            order == InOrder(routes)
<1>1. IsFiniteSet(routes) /\ n \in Nat
  BY FS_Subset, FS_CardinalityType DEF CallConstants
<1>2. \A r \in routes : IsFiniteSet(Ahead(routes, r)) /\ Cardinality(Ahead(routes, r)) \in 0..(n - 1)
  <2> SUFFICES ASSUME NEW r \in routes
               PROVE  IsFiniteSet(Ahead(routes, r)) /\ Cardinality(Ahead(routes, r)) \in 0..(n - 1)
    OBVIOUS
  <2>1. Ahead(routes, r) \in SUBSET routes /\ Ahead(routes, r) # routes
    BY BeforeIsAnOrder DEF Ahead
  <2>2. /\ IsFiniteSet(Ahead(routes, r)) /\ Cardinality(Ahead(routes, r)) <= n
        /\ Cardinality(Ahead(routes, r)) # n /\ Cardinality(Ahead(routes, r)) \in Nat
    BY <2>1, <1>1, FS_Subset, FS_CardinalityType
  <2>. QED
    BY <2>2, <1>1
<1>3. place \in [routes -> 1..n]
  <2>1. \A c \in Int : c \in 0..(n - 1) => c + 1 \in 1..n
    BY <1>1
  <2>. QED
    BY <2>1, <1>2
<1>4. ASSUME NEW r \in routes, NEW s \in routes, Before(r, s)
      PROVE  place[r] < place[s]
  <2>1. Ahead(routes, r) \in SUBSET Ahead(routes, s) /\ r \in Ahead(routes, s)
        /\ r \notin Ahead(routes, r)
    BY <1>4, BeforeIsAnOrder DEF Ahead
  <2>2. Cardinality(Ahead(routes, r)) <= Cardinality(Ahead(routes, s))
        /\ Cardinality(Ahead(routes, r)) # Cardinality(Ahead(routes, s))
    BY <2>1, <1>2, FS_Subset
  <2>3. Cardinality(Ahead(routes, r)) \in Nat /\ Cardinality(Ahead(routes, s)) \in Nat
    BY <1>1, <1>2
  <2>. QED
    BY <2>2, <2>3
<1>5. \A r, s \in routes : place[r] < place[s] <=> Before(r, s)
  <2>1. \A r \in routes : place[r] \in Int
    BY <1>3
  <2>2. \A r, s \in routes : r = s \/ Before(r, s) \/ Before(s, r)
    BY BeforeIsAnOrder
  <2>. QED
    BY <1>4, <2>1, <2>2
<1>6. place \in Injection(routes, 1..n)
  <2>1. \A r, s \in routes : place[r] = place[s] => r = s
    <3>1. \A r, s \in routes : r # s => Before(r, s) \/ Before(s, r)
      BY BeforeIsAnOrder
    <3>2. \A r \in routes : place[r] \in Int
      BY <1>3
    <3>. QED
      BY <1>4, <3>1, <3>2
  <2>. QED
    BY <1>3, <2>1 DEF Injection, IsInjective
<1>7. place \in Surjection(routes, 1..n)
  <2>1. IsFiniteSet(1..n) /\ Cardinality(1..n) = n
    BY <1>1, FS_Interval
  <2>. QED
    BY <2>1, <1>6, FS_Injection
<1>8. ASSUME NEW k \in 1..n
      PROVE  order[k] \in routes /\ place[order[k]] = k
  <2>1. PICK r \in routes : place[r] = k
    BY <1>7 DEF Surjection
  <2>2. Cardinality(Ahead(routes, r)) = k - 1
    BY <2>1, <1>2
  <2>3. order[k] = CHOOSE s \in routes : Cardinality(Ahead(routes, s)) = k - 1
    BY DEF InOrder, Ahead
  <2>4. order[k] \in routes /\ Cardinality(Ahead(routes, order[k])) = k - 1
    BY <2>2, <2>3
  <2>. QED
    BY <2>4
<1>9. order \in Seq(routes) /\ Len(order) = n
  <2>. DEFINE at(k) == CHOOSE s \in routes : Cardinality(Ahead(routes, s)) = k - 1
  <2>1. order = [k \in 1..n |-> at(k)]
    BY DEF InOrder, Ahead
  <2>2. \A k \in 1..n : order[k] \in routes
    BY <1>8
  <2>. HIDE DEF order, n, at
  <2>3. order \in [1..n -> routes]
    BY <2>1, <2>2
  <2>. QED
    BY <2>3, <1>1, SeqDef, LenProperties, IsASeq
<1>10. \A r \in routes : \E k \in 1..n : order[k] = r
  <2>1. \A r \in routes : place[r] \in 1..n
    BY <1>3
  <2>. QED
    BY <2>1, <1>6, <1>8 DEF Injection, IsInjective
<1>11. \A i, k \in 1..n : i < k <=> Before(order[i], order[k])
  <2> SUFFICES ASSUME NEW i \in 1..n, NEW k \in 1..n
               PROVE  i < k <=> Before(order[i], order[k])
    OBVIOUS
  <2>1. /\ order[i] \in routes /\ place[order[i]] = i
        /\ order[k] \in routes /\ place[order[k]] = k
    BY <1>8
  <2>. HIDE DEF place, order, n
  <2>. QED
    BY <2>1, <1>5
<1>. QED
  BY <1>1, <1>9, <1>10, <1>11

LEMMA RoutesAre ==
    /\ Ordered \in Seq(Routes) /\ Len(Ordered) \in Nat
    /\ \A k \in 1..Len(Ordered) : Ordered[k].provider \in Providers
<1>1. Assigned \subseteq Routes /\ Default \subseteq Routes
  BY DEF Assigned, Default, Open
<1>2. InOrder(Assigned) \in Seq(Routes) /\ InOrder(Default) \in Seq(Routes)
  BY <1>1, OrderHolds, SeqMonotonic, CallConstants
<1>3. Ordered \in Seq(Routes)
  BY <1>2, ConcatProperties DEF Ordered
<1>4. \A k \in 1..Len(Ordered) : Ordered[k] \in Routes
  BY <1>3, ElementOfSeq
<1>. QED
  BY <1>3, <1>4, LenProperties DEF Providers

----------------------------------------------------------------------------
\* The LLM calls and the breaker.

\* A worker at work is at one of the routes, an idle one before the first, and
\* no count that was read is above its threshold.
CallerRows ==
    {c \in [step: Steps, at: Nat, read: Nat] :
        /\ IF c.step = "idle" THEN c.at = 1 ELSE c.at \in 1..Len(Ordered)
        /\ c.step = "badCount" => c.read <= Threshold
        /\ c.step = "goodCount" => c.read <= Successes}

CallInv == CallTypeOK /\ caller \in [Callers -> CallerRows]

LEMMA Limits ==
    /\ Threshold \in Nat \ {0} /\ Recovery \in Nat \ {0} /\ Successes \in Nat \ {0}
    /\ KeyLife \in Nat \ {0} /\ Never = -1
BY CallConstants DEF CallConstants, Never

LEMMA KeysAre ==
    ASSUME NEW values, NEW v \in values
    PROVE  Key(v) \in Keys(values) /\ (v = 0 => Absent \in Keys(values))
<1>1. KeyLife \in 0..KeyLife /\ 0 \in 0..KeyLife
  BY Limits
<1>. QED
  BY <1>1 DEF Key, Keys, Absent

LEMMA RowsTyped == CallerRows \subseteq [step: Steps, at: Nat, read: Nat]
BY DEF CallerRows

LEMMA CallerIs ==
    ASSUME CallInv, NEW w \in Callers
    PROVE  /\ caller[w] \in CallerRows /\ caller[w].at \in Nat /\ caller[w].read \in Nat
           /\ caller[w].step \in Steps
           /\ caller[w].step # "idle" =>
                 caller[w].at \in 1..Len(Ordered) /\ ProviderOf(w) \in Providers
BY RoutesAre DEF CallInv, CallerRows, ProviderOf

\* The ways in which a worker moves on.
LEMMA GotoKeeps ==
    ASSUME CallInv, NEW w \in Callers, NEW step \in Steps \ {"idle", "badCount", "goodCount"},
           caller[w].step # "idle", Goto(w, step)
    PROVE  caller' \in [Callers -> CallerRows]
<1>. DEFINE c == [caller[w] EXCEPT !.step = step]
<1>1. c \in CallerRows
  BY CallerIs DEF CallerRows
<1>2. caller' = [caller EXCEPT ![w] = c]
  BY DEF Goto, CallInv
<1>. HIDE DEF c
<1>. QED
  BY <1>1, <1>2 DEF CallInv

LEMMA DoneKeeps ==
    ASSUME CallInv, NEW w \in Callers, Done(w)
    PROVE  caller' \in [Callers -> CallerRows]
<1>1. Idle \in CallerRows
  BY DEF Idle, CallerRows, Steps
<1>. QED
  BY <1>1 DEF CallInv, Done

LEMMA NextRouteKeeps ==
    ASSUME CallInv, NEW w \in Callers, caller[w].step # "idle", NextRoute(w)
    PROVE  caller' \in [Callers -> CallerRows]
<1>1. CASE caller[w].at < Len(Ordered)
  <2>. DEFINE c == [caller[w] EXCEPT !.step = "look", !.at = caller[w].at + 1, !.read = 0]
  <2>1. caller[w].at + 1 \in 1..Len(Ordered) /\ caller[w].at + 1 \in Nat
    BY <1>1, CallerIs, RoutesAre
  <2>2. c \in CallerRows
    BY <2>1, CallerIs DEF CallerRows, Steps
  <2>3. caller' = [caller EXCEPT ![w] = c]
    BY <1>1 DEF NextRoute, CallInv
  <2>. HIDE DEF c
  <2>. QED
    BY <2>2, <2>3 DEF CallInv
<1>2. CASE ~(caller[w].at < Len(Ordered))
  BY <1>2, DoneKeeps DEF NextRoute
<1>. QED
  BY <1>1, <1>2

LEMMA CountKeeps ==
    ASSUME CallInv, NEW w \in Callers, caller[w].step # "idle", NEW n \in Nat,
           NEW step \in {"badCount", "goodCount"},
           step = "badCount" => n <= Threshold, step = "goodCount" => n <= Successes,
           caller' = [caller EXCEPT ![w].step = step, ![w].read = n]
    PROVE  caller' \in [Callers -> CallerRows]
<1>. DEFINE c == [caller[w] EXCEPT !.step = step, !.read = n]
<1>1. c \in CallerRows
  BY CallerIs DEF CallerRows, Steps
<1>2. caller' = [caller EXCEPT ![w] = c]
  BY DEF CallInv
<1>. HIDE DEF c
<1>. QED
  BY <1>1, <1>2 DEF CallInv

LEMMA CountersKept ==
    ASSUME CallInv, UNCHANGED Counters, caller' \in [Callers -> CallerRows]
    PROVE  CallInv'
BY RowsTyped DEF CallInv, CallTypeOK, Counters

LEMMA CountersAreKeys ==
    ASSUME CallInv, NEW p \in Providers
    PROVE  /\ failures[p].value \in 0..Threshold /\ failures[p].left \in 0..KeyLife
           /\ opened[p].value \in Never..(Recovery + 1) /\ opened[p].left \in 0..KeyLife
           /\ halfOpen[p].value \in 0..Successes /\ halfOpen[p].left \in 0..KeyLife
BY DEF CallInv, CallTypeOK, Keys

LEMMA CallInitially == CallInit => CallInv
<1>1. 0 \in 0..Threshold /\ 0 \in Never..(Recovery + 1) /\ 0 \in 0..Successes
  BY Limits
<1>2. Idle \in CallerRows
  BY DEF Idle, CallerRows, Steps
<1>. QED
  BY <1>1, <1>2, KeysAre, RowsTyped DEF CallInit, CallInv, CallTypeOK

LEMMA AskKeeps == ASSUME CallInv, NEW w \in Callers, Ask(w) PROVE CallInv'
<1>. DEFINE c == [caller[w] EXCEPT !.step = "look"]
<1>1. caller[w].step = "idle" /\ Len(Ordered) > 0 /\ UNCHANGED Counters
      /\ caller' = [caller EXCEPT ![w].step = "look"]
  BY DEF Ask, At, Goto
<1>2. 1 \in 1..Len(Ordered)
  BY <1>1, RoutesAre
<1>3. c \in CallerRows
  BY <1>1, <1>2, CallerIs DEF CallerRows, Steps
<1>4. caller' = [caller EXCEPT ![w] = c]
  BY <1>1 DEF CallInv
<1>. HIDE DEF c
<1>5. caller' \in [Callers -> CallerRows]
  BY <1>3, <1>4 DEF CallInv
<1>. QED
  BY <1>1, <1>5, CountersKept

\* A key that is set.
LEMMA SetKeeps ==
    ASSUME CallInv, NEW p \in Providers, caller' \in [Callers -> CallerRows],
           NEW n \in Int,
           \/ /\ n \in 0..Threshold /\ UNCHANGED <<opened, halfOpen>>
              /\ SetFailures(p, n)
           \/ /\ n \in Never..(Recovery + 1) /\ UNCHANGED <<failures, halfOpen>>
              /\ opened' = [opened EXCEPT ![p] = Key(n)]
           \/ /\ n \in 0..Successes /\ UNCHANGED <<failures, opened>>
              /\ halfOpen' = [halfOpen EXCEPT ![p] = Key(n)]
    PROVE  CallInv'
<1>1. CASE /\ n \in 0..Threshold /\ UNCHANGED <<opened, halfOpen>>
           /\ SetFailures(p, n)
  <2>1. Key(n) \in Keys(0..Threshold)
    BY <1>1, KeysAre
  <2>. QED
    BY <1>1, <2>1, RowsTyped DEF CallInv, CallTypeOK, SetFailures
<1>2. CASE /\ n \in Never..(Recovery + 1) /\ UNCHANGED <<failures, halfOpen>>
           /\ opened' = [opened EXCEPT ![p] = Key(n)]
  <2>1. Key(n) \in Keys(Never..(Recovery + 1))
    BY <1>2, KeysAre
  <2>. QED
    BY <1>2, <2>1, RowsTyped DEF CallInv, CallTypeOK
<1>3. CASE /\ n \in 0..Successes /\ UNCHANGED <<failures, opened>>
           /\ halfOpen' = [halfOpen EXCEPT ![p] = Key(n)]
  <2>1. Key(n) \in Keys(0..Successes)
    BY <1>3, KeysAre
  <2>. QED
    BY <1>3, <2>1, RowsTyped DEF CallInv, CallTypeOK
<1>. QED
  BY <1>1, <1>2, <1>3

LEMMA CappedIs ==
    ASSUME NEW n \in Nat, NEW max \in Nat
    PROVE  Capped(n, max) \in 0..max
BY DEF Capped

LEMMA ServeKeeps == ASSUME CallInv, NEW w \in Callers, Serve(w) PROVE CallInv'
<1>. DEFINE p == ProviderOf(w)
<1>1. caller[w].step # "idle"
  BY DEF Serve, At, LookFailures, LookOpened, Call, BadRead, BadCount, BadOpen, BadHalf,
         GoodRead, Reset, GoodHalf, GoodCount, Close, CloseOpened, CloseHalf
<1>2. p \in Providers /\ caller[w] \in CallerRows /\ caller[w].read \in Nat
  BY <1>1, CallerIs
<1>3. /\ 0 \in 0..Threshold /\ 0 \in 0..Successes /\ 0 \in Never..(Recovery + 1)
      /\ Never \in Never..(Recovery + 1) /\ Never \in Int
  BY Limits
<1>4. /\ Capped(failures[p].value + 1, Threshold) \in 0..Threshold
      /\ Capped(halfOpen[p].value + 1, Successes) \in 0..Successes
  <2>1. failures[p].value + 1 \in Nat /\ halfOpen[p].value + 1 \in Nat
    BY <1>2, CountersAreKeys, Limits
  <2>. QED
    BY <2>1, CappedIs, Limits
<1>. HIDE DEF p
<1>5. CASE LookFailures(w) \/ LookOpened(w) \/ Call(w) \/ GoodRead(w)
  <2>1. UNCHANGED Counters
        /\ \/ Done(w) \/ NextRoute(w)
           \/ \E step \in {"call", "lookOpened", "good", "bad", "goodHalf", "reset"} : Goto(w, step)
    BY <1>5 DEF LookFailures, LookOpened, Call, GoodRead
  <2>2. {"call", "lookOpened", "good", "bad", "goodHalf", "reset"}
            \subseteq Steps \ {"idle", "badCount", "goodCount"}
    BY DEF Steps
  <2>3. caller' \in [Callers -> CallerRows]
    BY <1>1, <2>1, <2>2, GotoKeeps, DoneKeeps, NextRouteKeeps
  <2>. QED
    BY <2>1, <2>3, CountersKept
<1>6. CASE BadRead(w) \/ GoodHalf(w)
  <2>1. UNCHANGED Counters
    BY <1>6 DEF BadRead, GoodHalf
  <2>2. caller' \in [Callers -> CallerRows]
    <3>1. CASE BadRead(w)
      <4>. DEFINE n == Capped(failures[p].value + 1, Threshold)
      <4>1. caller' = [caller EXCEPT ![w].step = "badCount", ![w].read = n]
        BY <3>1 DEF BadRead, p
      <4>2. n \in Nat /\ n <= Threshold
        BY <1>4, Limits
      <4>. HIDE DEF n
      <4>. QED
        BY <1>1, <4>1, <4>2, CountKeeps
    <3>2. CASE GoodHalf(w)
      <4>. DEFINE n == Capped(halfOpen[p].value + 1, Successes)
      <4>1. caller' = [caller EXCEPT ![w].step = "goodCount", ![w].read = n]
        BY <3>2 DEF GoodHalf, p
      <4>2. n \in Nat /\ n <= Successes
        BY <1>4, Limits
      <4>. HIDE DEF n
      <4>. QED
        BY <1>1, <4>1, <4>2, CountKeeps
    <3>. QED
      BY <1>6, <3>1, <3>2
  <2>. QED
    BY <2>1, <2>2, CountersKept
<1>7. CASE BadCount(w)
  <2>1. SetFailures(p, caller[w].read) /\ UNCHANGED <<opened, halfOpen>>
        /\ (NextRoute(w) \/ Goto(w, "badOpen"))
    BY <1>7 DEF BadCount, p
  <2>2. caller[w].read \in 0..Threshold /\ caller[w].read \in Int
    BY <1>2, <1>7, Limits DEF BadCount, At, CallerRows
  <2>3. caller' \in [Callers -> CallerRows]
    BY <1>1, <2>1, GotoKeeps, NextRouteKeeps DEF Steps
  <2>. QED
    BY <1>2, <2>1, <2>2, <2>3, SetKeeps
<1>8. CASE GoodCount(w)
  <2>1. halfOpen' = [halfOpen EXCEPT ![p] = Key(caller[w].read)] /\ UNCHANGED <<failures, opened>>
        /\ (Done(w) \/ Goto(w, "close"))
    BY <1>8 DEF GoodCount, p
  <2>2. caller[w].read \in 0..Successes /\ caller[w].read \in Int
    BY <1>2, <1>8, Limits DEF GoodCount, At, CallerRows
  <2>3. caller' \in [Callers -> CallerRows]
    BY <1>1, <2>1, GotoKeeps, DoneKeeps DEF Steps
  <2>. QED
    BY <1>2, <2>1, <2>2, <2>3, SetKeeps
<1>9. CASE BadOpen(w) \/ CloseOpened(w)
  <2>1. PICK n \in {0, Never} : opened' = [opened EXCEPT ![p] = Key(n)]
    BY <1>9 DEF BadOpen, CloseOpened, p
  <2>2. UNCHANGED <<failures, halfOpen>> /\ (Goto(w, "badHalf") \/ Goto(w, "closeHalf"))
    BY <1>9 DEF BadOpen, CloseOpened
  <2>3. caller' \in [Callers -> CallerRows]
    BY <1>1, <2>2, GotoKeeps DEF Steps
  <2>4. n \in Int /\ n \in Never..(Recovery + 1)
    BY <1>3
  <2>. QED
    BY <1>2, <2>1, <2>2, <2>3, <2>4, SetKeeps
<1>10. CASE BadHalf(w) \/ CloseHalf(w)
  <2>1. halfOpen' = [halfOpen EXCEPT ![p] = Key(0)] /\ UNCHANGED <<failures, opened>>
        /\ (NextRoute(w) \/ Done(w))
    BY <1>10 DEF BadHalf, CloseHalf, p
  <2>2. caller' \in [Callers -> CallerRows]
    BY <1>1, <2>1, NextRouteKeeps, DoneKeeps
  <2>3. 0 \in Int
    OBVIOUS
  <2>. QED
    BY <1>2, <1>3, <2>1, <2>2, <2>3, SetKeeps
<1>11. CASE Reset(w) \/ Close(w)
  <2>1. SetFailures(p, 0) /\ UNCHANGED <<opened, halfOpen>>
        /\ (Done(w) \/ Goto(w, "closeOpened"))
    BY <1>11 DEF Reset, Close, p
  <2>2. caller' \in [Callers -> CallerRows]
    BY <1>1, <2>1, GotoKeeps, DoneKeeps DEF Steps
  <2>3. 0 \in Int
    OBVIOUS
  <2>. QED
    BY <1>2, <1>3, <2>1, <2>2, <2>3, SetKeeps
<1>. QED
  BY <1>5, <1>6, <1>7, <1>8, <1>9, <1>10, <1>11 DEF Serve

LEMMA LaterIs ==
    ASSUME NEW values, 0 \in values, NEW k \in Keys(values)
    PROVE  Later(k) \in Keys(values)
<1>1. CASE k.left <= 1
  BY <1>1, KeysAre DEF Later
<1>2. CASE ~(k.left <= 1)
  <2>1. k.left - 1 \in 0..KeyLife
    BY <1>2, Limits DEF Keys
  <2>. QED
    BY <1>2, <2>1 DEF Later, Keys
<1>. QED
  BY <1>1, <1>2

LEMMA CallTickKeeps == ASSUME CallInv, CallTick PROVE CallInv'
<1>1. ASSUME NEW p \in Providers
      PROVE  /\ Later(failures[p]) \in Keys(0..Threshold)
             /\ Later(halfOpen[p]) \in Keys(0..Successes)
             /\ Since(opened[p]) \in Keys(Never..(Recovery + 1))
  <2>1. /\ failures[p] \in Keys(0..Threshold) /\ halfOpen[p] \in Keys(0..Successes)
        /\ opened[p] \in Keys(Never..(Recovery + 1))
    BY DEF CallInv, CallTypeOK
  <2>2. 0 \in 0..Threshold /\ 0 \in 0..Successes /\ 0 \in Never..(Recovery + 1)
    BY Limits
  <2>3. /\ Later(failures[p]) \in Keys(0..Threshold) /\ Later(halfOpen[p]) \in Keys(0..Successes)
        /\ Later(opened[p]) \in Keys(Never..(Recovery + 1))
    BY <2>1, <2>2, LaterIs
  <2>4. CASE Later(opened[p]) = Absent \/ opened[p].value = Never
    BY <2>3, <2>4 DEF Since
  <2>5. CASE ~(Later(opened[p]) = Absent \/ opened[p].value = Never)
    <3>1. Later(opened[p]).value = opened[p].value
      BY <2>1, <2>5 DEF Later, Keys
    <3>2. opened[p].value + 1 \in Nat /\ Recovery + 1 \in Nat
      BY <2>1, <2>5, Limits, CountersAreKeys
    <3>3. Capped(opened[p].value + 1, Recovery + 1) \in 0..(Recovery + 1)
      BY <3>2, CappedIs
    <3>4. Capped(opened[p].value + 1, Recovery + 1) \in Never..(Recovery + 1)
      BY <3>3, Limits
    <3>5. Since(opened[p]) = [Later(opened[p]) EXCEPT !.value = Capped(opened[p].value + 1, Recovery + 1)]
      BY <2>5, <3>1 DEF Since
    <3>. QED
      BY <2>3, <3>4, <3>5 DEF Keys
  <2>. QED
    BY <2>3, <2>4, <2>5
<1>2. /\ failures' = [p \in Providers |-> Later(failures[p])]
      /\ opened' = [p \in Providers |-> Since(opened[p])]
      /\ halfOpen' = [p \in Providers |-> Later(halfOpen[p])]
      /\ caller' = caller
  BY DEF CallTick
<1>. QED
  BY <1>1, <1>2 DEF CallInv, CallTypeOK

LEMMA CallStep == CallInv /\ [CallNext]_callVars => CallInv'
<1> SUFFICES ASSUME CallInv, [CallNext]_callVars PROVE CallInv'
  OBVIOUS
<1>1. CASE UNCHANGED callVars
  BY <1>1 DEF callVars, CallInv, CallTypeOK
<1>. QED
  BY <1>1, AskKeeps, ServeKeeps, CallTickKeeps DEF CallNext

----------------------------------------------------------------------------
\* The work of the articles: what is proved of it alone holds beside the others.

AW == INSTANCE ArticleJobsProofs

LEMMA SameInit == ArticleWork!Init => AW!Init
BY DEF ArticleWork!Init, AW!Init, ArticleWork!Kept, AW!Kept, ArticleWork!NoRun, AW!NoRun,
       ArticleWork!NoIngest, AW!NoIngest, ArticleWork!NoJob, AW!NoJob

LEMMA SameNext == ArticleWork!Next => AW!Next
BY DEF ArticleWork!Next, AW!Next,
   ArticleWork!IngestRead, AW!IngestRead, ArticleWork!IngestWrite, AW!IngestWrite,
   ArticleWork!IngestAbort, AW!IngestAbort, ArticleWork!Request, AW!Request,
   ArticleWork!Publish, AW!Publish, ArticleWork!Recover, AW!Recover,
   ArticleWork!LoseMessage, AW!LoseMessage, ArticleWork!Process, AW!Process,
   ArticleWork!Claim, AW!Claim, ArticleWork!RunScript, AW!RunScript,
   ArticleWork!Tick, AW!Tick, ArticleWork!Read, AW!Read, ArticleWork!Pay, AW!Pay,
   ArticleWork!Apply, AW!Apply, ArticleWork!Fails, AW!Fails, ArticleWork!Finish, AW!Finish,
   ArticleWork!RequestFresh, AW!RequestFresh, ArticleWork!Crash, AW!Crash,
   ArticleWork!Overdue, AW!Overdue, ArticleWork!Closed, AW!Closed,
   ArticleWork!GoTo, AW!GoTo, ArticleWork!Ends, AW!Ends, ArticleWork!Verdict, AW!Verdict,
   ArticleWork!Leave, AW!Leave, ArticleWork!Claimable, AW!Claimable,
   ArticleWork!Finished, AW!Finished, ArticleWork!Changed, AW!Changed,
   ArticleWork!Moved, AW!Moved, ArticleWork!Less, AW!Less, ArticleWork!Exists, AW!Exists,
   ArticleWork!HasActive, AW!HasActive, ArticleWork!NewJob, AW!NewJob,
   ArticleWork!Insert, AW!Insert, ArticleWork!Enqueue, AW!Enqueue,
   ArticleWork!Active, AW!Active, ArticleWork!NoRun, AW!NoRun,
   ArticleWork!NoIngest, AW!NoIngest, ArticleWork!NoJob, AW!NoJob

LEMMA SameTypes == AW!TypeOK <=> ArticleWork!TypeOK
BY DEF AW!TypeOK, ArticleWork!TypeOK, AW!ArticleRows, ArticleWork!ArticleRows,
   AW!IngestRows, ArticleWork!IngestRows, AW!JobRows, ArticleWork!JobRows,
   AW!Runs, ArticleWork!Runs, AW!Steps, ArticleWork!Steps, AW!JobStates, ArticleWork!JobStates,
   AW!Active, ArticleWork!Active, AW!Reasons, ArticleWork!Reasons, AW!Verdicts,
   ArticleWork!Verdicts

----------------------------------------------------------------------------
\* The parts beside each other.

LEMMA CompanyBeside == [ServicesNext]_servicesVars => [CompanyNext]_companyVars
BY DEF ServicesNext, servicesVars, companyVars

LEMMA CompanyInvStep == CompanyInv /\ [ServicesNext]_servicesVars => CompanyInv'
BY CompanyBeside, CompanyStep

LEMMA CompanySoundStep ==
    CompanyInv /\ [ServicesNext]_servicesVars => [SavedOnWhatWasRead /\ PaidByTheClaim]_companyVars
BY CompanyBeside, CompanyStep

\* CompanyInv is an inductive invariant of the jobs of a company, beside everything
\* else the workers do.
THEOREM CompanyInvariant == ServicesSpec => []CompanyInv
<1>1. ServicesInit => CompanyInv
  BY CompanyInitially DEF ServicesInit
<1> QED
  BY <1>1, CompanyInvStep, PTL DEF ServicesSpec

\* One refresh of a company is active at a time, an analysis is saved only on what
\* its prompt was built from, and only the delivery that holds the job pays.
THEOREM CompanyResults == ServicesSpec => CompanyResultsSound
<1>1. CompanyInv => OneActiveRefresh
  BY DEF CompanyInv
<1> QED
  BY <1>1, CompanyInvariant, CompanySoundStep, PTL DEF ServicesSpec, CompanyResultsSound

LEMMA FetchBeside == [ServicesNext]_servicesVars => [FetchNext]_fetchVars
BY DEF ServicesNext, servicesVars, fetchVars

LEMMA FetchInvStep == FetchInv /\ [ServicesNext]_servicesVars => FetchInv'
BY FetchBeside, FetchStep

LEMMA FetchPoliteStep ==
    FetchInv /\ [ServicesNext]_servicesVars =>
        [KeepsItsDistance /\ AsksOnlyWhatIsAllowed /\ StaysSecure]_fetchVars
BY FetchBeside, PoliteStep

\* FetchInv is an inductive invariant of the fetches of a run.
THEOREM FetchInvariant == ServicesSpec => []FetchInv
<1>1. ServicesInit => FetchInv
  BY FetchInitially DEF ServicesInit
<1> QED
  BY <1>1, FetchInvStep, PTL DEF ServicesSpec

LEMMA RequestsCounted == FetchInv => WithinRequests
BY FetchFacts, FetchConstants DEF FetchInv, Spent, WithinRequests

\* No more requests leave than the policy allows, each only where the rules were
\* read and allow it and at the distance any of them asks for, and https is kept.
THEOREM FetchesPolite == ServicesSpec => FetchesPolitely
BY FetchInvariant, RequestsCounted, FetchPoliteStep, PTL DEF ServicesSpec, FetchesPolitely

LEMMA CallBeside == [ServicesNext]_servicesVars => [CallNext]_callVars
BY DEF ServicesNext, servicesVars, callVars

LEMMA ArticlesBeside == [ServicesNext]_servicesVars => [AW!Next]_(AW!vars)
BY SameNext DEF ServicesNext, servicesVars, articleVars, AW!vars

\* The configured routes of a task are tried one by one, each of them once: those
\* that are assigned to it, then the default ones, and the primary ones, the
\* preferred and the cheaper ones first (routing.py: ordered_configs).
THEOREM RoutesInOrder ==
    /\ Ordered \in Seq(Assigned \cup Default)
    /\ Len(Ordered) = Cardinality(Assigned) + Cardinality(Default)
    /\ \A r \in Assigned \cup Default : \E k \in DOMAIN Ordered : Ordered[k] = r
    /\ \A i, k \in DOMAIN Ordered : i < k =>
          \/ Ordered[i] \in Assigned /\ Ordered[k] \in Default
          \/ Before(Ordered[i], Ordered[k])
<1>. DEFINE both == Assigned \cup Default
            first == InOrder(Assigned)
            second == InOrder(Default)
<1>1. Assigned \subseteq Routes /\ Default \subseteq Routes
  BY DEF Assigned, Default, Open
<1>2. /\ first \in Seq(Assigned) /\ Len(first) \in Nat /\ Len(first) = Cardinality(Assigned)
      /\ \A r \in Assigned : \E k \in 1..Len(first) : first[k] = r
      /\ \A i, k \in 1..Len(first) : i < k => Before(first[i], first[k])
  BY <1>1, OrderHolds, CallConstants
<1>3. /\ second \in Seq(Default) /\ Len(second) \in Nat /\ Len(second) = Cardinality(Default)
      /\ \A r \in Default : \E k \in 1..Len(second) : second[k] = r
      /\ \A i, k \in 1..Len(second) : i < k => Before(second[i], second[k])
  BY <1>1, OrderHolds, CallConstants
<1>4. Ordered = first \o second
  BY DEF Ordered
<1>. HIDE DEF first, second
<1>5. first \in Seq(both) /\ second \in Seq(both)
  BY <1>2, <1>3, SeqMonotonic
<1>6. /\ Ordered \in Seq(both) /\ Len(Ordered) = Len(first) + Len(second)
      /\ \A k \in 1..(Len(first) + Len(second)) :
            Ordered[k] = IF k <= Len(first) THEN first[k] ELSE second[k - Len(first)]
  BY <1>4, <1>5, ConcatProperties
<1>7. DOMAIN Ordered = 1..(Len(first) + Len(second))
  BY <1>6, LenProperties
<1>8. ASSUME NEW r \in both
      PROVE  \E k \in DOMAIN Ordered : Ordered[k] = r
  <2>1. CASE r \in Assigned
    <3>1. PICK k \in 1..Len(first) : first[k] = r
      BY <1>2, <2>1
    <3>2. k \in 1..(Len(first) + Len(second)) /\ k <= Len(first)
      BY <1>2, <1>3
    <3>. QED
      BY <1>6, <1>7, <3>1, <3>2
  <2>2. CASE r \in Default
    <3>1. PICK k \in 1..Len(second) : second[k] = r
      BY <1>3, <2>2
    <3>2. Len(first) + k \in 1..(Len(first) + Len(second)) /\ ~(Len(first) + k <= Len(first))
          /\ Len(first) + k - Len(first) = k
      BY <1>2, <1>3
    <3>3. Ordered[Len(first) + k] = second[k]
      BY <1>6, <3>2
    <3>. QED
      BY <1>7, <3>1, <3>2, <3>3
  <2>. QED
    BY <2>1, <2>2
<1>9. ASSUME NEW i \in DOMAIN Ordered, NEW k \in DOMAIN Ordered, i < k
      PROVE  \/ Ordered[i] \in Assigned /\ Ordered[k] \in Default
             \/ Before(Ordered[i], Ordered[k])
  <2>1. CASE k <= Len(first)
    <3>1. i \in 1..Len(first) /\ k \in 1..Len(first)
      BY <1>2, <1>3, <1>7, <1>9, <2>1
    <3>2. Ordered[i] = first[i] /\ Ordered[k] = first[k]
      BY <1>6, <1>7, <3>1
    <3>. QED
      BY <1>2, <1>9, <3>1, <3>2
  <2>2. CASE i <= Len(first) /\ ~(k <= Len(first))
    <3>1. i \in 1..Len(first) /\ k - Len(first) \in 1..Len(second)
      BY <1>2, <1>3, <1>7, <2>2
    <3>2. Ordered[i] = first[i] /\ Ordered[k] = second[k - Len(first)]
      BY <1>6, <1>7, <2>2
    <3>. QED
      BY <1>2, <1>3, <3>1, <3>2, ElementOfSeq
  <2>3. CASE ~(i <= Len(first))
    <3>1. /\ i - Len(first) \in 1..Len(second) /\ k - Len(first) \in 1..Len(second)
          /\ i - Len(first) < k - Len(first) /\ ~(k <= Len(first))
      BY <1>2, <1>3, <1>7, <1>9, <2>3
    <3>2. Ordered[i] = second[i - Len(first)] /\ Ordered[k] = second[k - Len(first)]
      BY <1>6, <1>7, <2>3, <3>1
    <3>. QED
      BY <1>3, <3>1, <3>2
  <2>. QED
    BY <2>1, <2>2, <2>3
<1>. QED
  BY <1>2, <1>3, <1>6, <1>8, <1>9

\* Every variable of every part keeps to its values.
THEOREM ServicesTyped == ServicesSpec => []ServicesTypeOK
<1>. DEFINE Together == moving \in Parts /\ CompanyInv /\ CallInv /\ FetchInv /\ AW!IInv
<1>1. ServicesInit => Together
  BY CompanyInitially, CallInitially, FetchInitially, SameInit, AW!InitIInv, ArticleConstants
  DEF ServicesInit
<1>2. Together /\ [ServicesNext]_servicesVars => Together'
  <2>. SUFFICES ASSUME Together, [ServicesNext]_servicesVars PROVE Together'
    OBVIOUS
  <2>1. moving' = moving
    BY DEF ServicesNext, servicesVars
  <2>2. CompanyInv' /\ CallInv' /\ FetchInv'
    BY CompanyInvStep, CallBeside, CallStep, FetchInvStep
  <2>3. AW!IInv'
    BY ArticlesBeside, AW!IInvStep, ArticleConstants
  <2>. QED
    BY <2>1, <2>2, <2>3
<1>3. Together => ServicesTypeOK
  BY SameTypes DEF ServicesTypeOK, CompanyInv, CallInv, FetchInv, AW!IInv
<1>. QED
  BY <1>1, <1>2, <1>3, PTL DEF ServicesSpec
=============================================================================
