------------------------------- MODULE Digest -------------------------------
(***************************************************************************)
(* The daily mails (email/tasks.py, digest.py, sender.py).  A run of the   *)
(* task lists the users, takes them one by one for the digest, then lists  *)
(* them again for the keyword alerts.  What a mail contains is what was    *)
(* stamped in the last day when the user's turn comes: the queue, the mail *)
(* server and the clock decide when that is.  A story is stamped when its  *)
(* row is flushed and can be seen when that is committed, maybe long after *)
(* it.  The whole run shares one database session, which sees what was     *)
(* committed when its transaction began: a transaction ends with the log   *)
(* of a mail, and a failure to store that log ends the run for all that    *)
(* follow.  Users change their settings and subscriptions, and             *)
(* administrators the users, at any time.                                  *)
(***************************************************************************)
EXTENDS Integers, FiniteSets

CONSTANTS
    Readers,     \* users
    Stories,     \* articles
    Keywords, WordsOf,   \* what a story contains, as far as someone looks for it
    Window,      \* 24 hours, in ticks
    Subscribed,  \* who looks for what at first
    MaxUpsets, MaxSends  \* bounds

ASSUME DigestAssumption ==
    /\ Window \in Nat \ {0} /\ {MaxUpsets, MaxSends} \subseteq Nat
    /\ WordsOf \in [Stories -> SUBSET Keywords]

VARIABLES
    reader,   \* the users: whether they are there, active, and want the digest
    looks,    \* keyword subscriptions: none, paused or active
    age,      \* ticks since the stamp of a story, up to Window + 1; Unseen before
    visible,  \* the stories of which the row is committed
    sends,    \* messages of the task that wait in the queue
    run,      \* the run under way
    inbox,    \* the stories that came to a user in a digest
    unlogged, \* mails that left no row in email_log
    since,    \* history: ticks since the user's last digest turn, up to Window + 1
    passed,   \* history: who had a turn between the stamp of a story and its commit
    excused,  \* history: users whose digests had a reason to miss a story
    upsets    \* changes by users and administrators, and mishaps, so far

digestVars ==
    <<reader, looks, age, visible, sends, run, inbox, unlogged, since, passed, excused, upsets>>

Unseen == -2
Ages == -1..Window + 1
Reader == [there: BOOLEAN, active: BOOLEAN, daily: BOOLEAN]
Looks == {"none", "paused", "active"}
Stages == {"digests", "alerts"}
NoRun == [stage |-> "idle", todo |-> {}]

\* What a transaction of the run sees, from its first query to its end.
View == [reader: [Readers -> Reader], looks: [Readers -> [Keywords -> Looks]], visible: SUBSET Stories]
Now == [reader |-> reader, looks |-> looks, visible |-> visible]

Stamped == {s \in Stories : age[s] # Unseen}

\* Everyone is subscribed and had a digest a moment ago; the stories come later.
DigestInit ==
    /\ reader = [u \in Readers |-> [there |-> TRUE, active |-> TRUE, daily |-> TRUE]]
    /\ looks = [u \in Readers |-> [k \in Keywords |-> IF <<u, k>> \in Subscribed THEN "active" ELSE "none"]]
    /\ age = [s \in Stories |-> Unseen] /\ visible = {}
    /\ sends = 0 /\ run = NoRun
    /\ inbox = [u \in Readers |-> {}] /\ unlogged = 0
    /\ since = [u \in Readers |-> 0] /\ passed = {} /\ excused = {}
    /\ upsets = 0

(***************************************************************************)
(* Time, and what is crawled.                                              *)
(***************************************************************************)
Older(n) == IF n \in {Unseen, Window + 1} THEN n ELSE n + 1

\* When all stories are old, nothing more can be missed.
Elapse ==
    /\ \E s \in Stories : age[s] <= Window
    /\ age' = [s \in Stories |-> Older(age[s])]
    /\ since' = [u \in Readers |-> Older(since[u])]
    /\ UNCHANGED <<reader, looks, visible, sends, run, inbox, unlogged, passed, excused, upsets>>

\* The row of a story is flushed, with the stamp of the moment; the database
\* rounds that to a second, the one before or the one after.
Flush(s) ==
    /\ age[s] = Unseen
    /\ \E stamp \in -1..1 :
          /\ age' = [age EXCEPT ![s] = stamp]
          /\ passed' = passed \cup {<<u, s>> : u \in {v \in Readers : stamp > since[v]}}
    /\ UNCHANGED <<reader, looks, visible, sends, run, inbox, unlogged, since, excused, upsets>>

\* The crawl that flushed it commits, or is rolled back.
Show(s) ==
    /\ s \in Stamped \ visible /\ visible' = visible \cup {s}
    /\ UNCHANGED <<reader, looks, age, sends, run, inbox, unlogged, since, passed, excused, upsets>>

RollBack(s) ==
    /\ s \in Stamped \ visible
    /\ age' = [age EXCEPT ![s] = Unseen] /\ passed' = {p \in passed : p[2] # s}
    /\ UNCHANGED <<reader, looks, visible, sends, run, inbox, unlogged, since, excused, upsets>>

\* At seven in Paris, which is a day after the last time, or an hour more or
\* less when clocks change; or when an administrator asks for the mails.  The
\* model leaves the moment open.
Send ==
    /\ sends < MaxSends /\ sends' = sends + 1
    /\ UNCHANGED <<reader, looks, age, visible, run, inbox, unlogged, since, passed, excused, upsets>>

(***************************************************************************)
(* Users.                                                                  *)
(***************************************************************************)
\* The settings of a user, the edit form of an administrator.
SetReader(u, active, daily) ==
    /\ upsets < MaxUpsets /\ upsets' = upsets + 1
    /\ reader[u].there
    /\ reader' = [reader EXCEPT ![u].active = active, ![u].daily = daily] /\ reader' # reader
    /\ excused' = excused \cup {u}
    /\ UNCHANGED <<looks, age, visible, sends, run, inbox, unlogged, since, passed>>

\* A user who authored nothing; the subscriptions go along.
DeleteReader(u) ==
    /\ upsets < MaxUpsets /\ upsets' = upsets + 1
    /\ reader[u].there
    /\ reader' = [reader EXCEPT ![u].there = FALSE]
    /\ looks' = [looks EXCEPT ![u] = [k \in Keywords |-> "none"]]
    /\ excused' = excused \cup {u}
    /\ UNCHANGED <<age, visible, sends, run, inbox, unlogged, since, passed>>

\* Subscribe, pause or resume, and remove.
Look(u, k, how) ==
    /\ upsets < MaxUpsets /\ upsets' = upsets + 1
    /\ reader[u].there /\ looks[u][k] # how
    /\ looks[u][k] = "none" => how = "active"
    /\ looks' = [looks EXCEPT ![u][k] = how]
    /\ UNCHANGED <<reader, age, visible, sends, run, inbox, unlogged, since, passed, excused>>

(***************************************************************************)
(* A run.  It reads the users, subscriptions and stories of its view.      *)
(***************************************************************************)
ActiveReaders(view) == {u \in Readers : view.reader[u].there /\ view.reader[u].active}

\* The first query begins a transaction.
Start ==
    /\ run = NoRun /\ sends > 0 /\ sends' = sends - 1
    /\ run' = [stage |-> "digests", todo |-> {u \in ActiveReaders(Now) : reader[u].daily}, sees |-> Now]
    /\ UNCHANGED <<reader, looks, age, visible, inbox, unlogged, since, passed, excused, upsets>>

\* The second list is read in the transaction that is open.
StartAlerts ==
    /\ run.stage = "digests" /\ run.todo = {}
    /\ run' = [run EXCEPT !.stage = "alerts", !.todo = ActiveReaders(run.sees)]
    /\ UNCHANGED <<reader, looks, age, visible, sends, inbox, unlogged, since, passed, excused, upsets>>

End ==
    /\ run.stage = "alerts" /\ run.todo = {} /\ run' = NoRun
    /\ UNCHANGED <<reader, looks, age, visible, sends, inbox, unlogged, since, passed, excused, upsets>>

\* The mutant leaves out what is exactly a day old.
RecentOnly == {s \in run.sees.visible : age[s] < Window}
\* Stamped in the last day.
Recent == {s \in run.sees.visible : age[s] <= Window}

Matches(u) == {s \in Recent : \E k \in WordsOf[s] : run.sees.looks[u][k] = "active"}

\* What the mail of this stage has for the user; an empty one is not sent.
Content(u) == IF run.stage = "digests" THEN Recent ELSE Matches(u)

\* What the alerts told is not followed.
Reaches(u) ==
    inbox' = IF run.stage = "digests" THEN [inbox EXCEPT ![u] = @ \cup Content(u)] ELSE inbox

\* A digest turn that comes too late, or fails, is a reason to miss a story; a
\* story it cannot see yet is passed.
Taken(u, served) ==
    IF run.stage = "digests"
    THEN /\ since' = [since EXCEPT ![u] = 0]
         /\ passed' = passed \cup {<<u, s>> : s \in Stamped \ run.sees.visible}
         /\ excused' = IF served /\ since[u] <= Window THEN excused ELSE excused \cup {u}
    ELSE UNCHANGED <<since, passed, excused>>

\* A user whom the transaction still sees.
Readable(u) == run.sees.reader[u].there

\* Nothing to send ends no transaction.  The log of a mail does; its user is read
\* again for a line of the log file, which begins the next one.
Turn(u) ==
    /\ u \in run.todo /\ Readable(u) /\ (reader[u].there \/ Content(u) = {})
    /\ run' = [run EXCEPT !.todo = @ \ {u}, !.sees = IF Content(u) = {} THEN @ ELSE Now]
    /\ Reaches(u) /\ Taken(u, TRUE)
    /\ UNCHANGED <<reader, looks, age, visible, sends, unlogged, upsets>>

\* The mail server refuses: that is logged, and the next user has his turn.
MailFails(u) ==
    /\ upsets < MaxUpsets /\ upsets' = upsets + 1
    /\ u \in run.todo /\ Readable(u) /\ reader[u].there /\ Content(u) # {}
    /\ run' = [run EXCEPT !.todo = @ \ {u}, !.sees = Now]
    /\ Taken(u, FALSE)
    /\ UNCHANGED <<reader, looks, age, visible, sends, inbox, unlogged>>

\* The run is over for everyone whose turn has not come.
Broken ==
    /\ run' = NoRun
    /\ excused' = IF run.stage = "digests" THEN excused \cup run.todo ELSE excused
    /\ UNCHANGED <<since, passed>>

\* The mail is out and its log cannot be stored: the database is away, or the
\* user was deleted and the transaction still sees him.
LogFails(u) ==
    /\ u \in run.todo /\ Readable(u) /\ Content(u) # {}
    /\ IF reader[u].there THEN upsets < MaxUpsets /\ upsets' = upsets + 1 ELSE UNCHANGED upsets
    /\ Reaches(u) /\ unlogged' = unlogged + 1
    /\ Broken
    /\ UNCHANGED <<reader, looks, age, visible, sends>>

\* The user was deleted since the list was made: reading him again fails, and
\* so does the line that wants to log his address.
ReaderGone(u) ==
    /\ u \in run.todo /\ ~Readable(u)
    /\ Broken
    /\ UNCHANGED <<reader, looks, age, visible, sends, inbox, unlogged, upsets>>

\* The worker dies; the message was acknowledged when the run began.
RunDies ==
    /\ upsets < MaxUpsets /\ upsets' = upsets + 1
    /\ run # NoRun
    /\ Broken
    /\ UNCHANGED <<reader, looks, age, visible, sends, inbox, unlogged>>

DigestNext ==
    \/ Elapse \/ Send \/ Start \/ StartAlerts \/ End \/ RunDies
    \/ \E s \in Stories : Flush(s) \/ Show(s) \/ RollBack(s)
    \/ \E u \in Readers : \/ DeleteReader(u) \/ Turn(u) \/ MailFails(u) \/ LogFails(u) \/ ReaderGone(u)
                          \/ \E active, daily \in BOOLEAN : SetReader(u, active, daily)
                          \/ \E k \in Keywords, how \in Looks : Look(u, k, how)

(***************************************************************************)
(* Properties.                                                             *)
(***************************************************************************)
\* Every variable keeps to its values.
DigestTypeOK ==
    /\ reader \in [Readers -> Reader] /\ looks \in [Readers -> [Keywords -> Looks]]
    /\ age \in [Stories -> {Unseen} \cup Ages] /\ visible \in SUBSET Stories
    /\ sends \in 0..MaxSends
    /\ run = NoRun \/ run \in [stage: Stages, todo: SUBSET Readers, sees: View]
    /\ inbox \in [Readers -> SUBSET Stories]
    /\ unlogged \in Nat
    /\ since \in [Readers -> 0..Window + 1]
    /\ passed \in SUBSET (Readers \X Stories) /\ excused \in SUBSET Readers
    /\ upsets \in 0..MaxUpsets

\* A story is too old for a user's digests and never was in one only if his
\* turns were more than a day apart, one of them failed or died with its run,
\* his account was changed, or the story was stamped before one of his turns
\* and could be seen only after it.  Turns exactly a day apart do miss such a
\* story; whatever else was stored, turns a day apart or less miss nothing,
\* however the queue and other users shift them.
NothingMissed == \A u \in Readers, s \in Stories :
    age[s] = Window + 1 /\ s \notin inbox[u] =>
        u \in excused \/ since[u] > Window \/ <<u, s>> \in passed

\* A mail without a log is the last of its run: there are no more of them than
\* there were failures of the database and users deleted under a run.
MailsLogged == unlogged <= upsets

\* The mails miss no story without a reason, and leave their logs.
MailsComplete == NothingMissed /\ MailsLogged
=============================================================================
