--------------------------- MODULE EvidenceStore ---------------------------
(***************************************************************************)
(* The private directory that keeps the pages of a preview for a day       *)
(* (crawlers/_evidence.py).  Savers and cleanups of several processes take *)
(* its lock without waiting, readers take none, and a process may die with *)
(* its file half written.  Times are counted down to zero.                 *)
(***************************************************************************)
EXTENDS Integers, FiniteSets, FiniteSetsExt

CONSTANTS
    Savers,     \* processes that keep evidence
    Sizes,      \* of a bundle, at most MAX_BUNDLE
    MaxSaves,   \* bound on the bundles ever written
    Ttl,        \* a day
    MaxFiles,   \* MAX_FILES
    MaxTotal    \* MAX_TOTAL

Nobody == "nobody"

ASSUME EvidenceConstants ==
    /\ {MaxSaves, Ttl, MaxFiles, MaxTotal} \subseteq Nat \ {0}
    /\ Sizes \subseteq 1..MaxTotal /\ Sizes # {}
    /\ Nobody \notin Savers

VARIABLES
    files,      \* what the directory holds
    used,       \* the keys that were given out
    refs,       \* the references that previews keep
    saver,      \* what each process is at
    locked      \* it holds .evidence.lock

evidenceVariables == <<files, used, refs, saver, locked>>

Files == [key: Nat, size: Sizes, left: 0..Ttl, whole: BOOLEAN]
Refs == [key: Nat, size: Sizes, left: 0..Ttl]
SaverSteps == {"idle", "dated", "locked", "open"}
Idles == [step |-> "idle", left |-> 0, size |-> CHOOSE n \in Sizes : TRUE, key |-> 0]

EvidenceInit ==
    /\ files = {} /\ used = 0 /\ refs = {}
    /\ saver = [s \in Savers |-> Idles]
    /\ locked = Nobody

(***************************************************************************)
(* The directory.                                                          *)
(***************************************************************************)
\* A directory with more files than it may hold is refused, to cleanups too.
Listed == Cardinality(files) <= MaxFiles
Pruned == {f \in files : f.left > 0}
Total(fs) == MapThenSumSet(LAMBDA f : f.size, fs)
\* The mutant lets one file too many in.
FitsOneMore(fs, size) == Cardinality(fs) <= MaxFiles /\ Total(fs) + size <= MaxTotal
Fits(fs, size) == Cardinality(fs) < MaxFiles /\ Total(fs) + size <= MaxTotal

AtStep(s, step) == saver[s].step = step
Rest(s) == saver' = [saver EXCEPT ![s] = Idles]

\* The expiry is taken before the lock.
Date(s) ==
    /\ AtStep(s, "idle") /\ used < MaxSaves
    /\ \E size \in Sizes :
           saver' = [saver EXCEPT ![s] = [@ EXCEPT !.step = "dated", !.left = Ttl, !.size = size]]
    /\ UNCHANGED <<files, used, refs, locked>>

\* The lock is tried once; who does not get it keeps nothing.
Lock(s) ==
    /\ AtStep(s, "dated")
    /\ IF locked = Nobody
       THEN locked' = s /\ saver' = [saver EXCEPT ![s].step = "locked"]
       ELSE Rest(s) /\ UNCHANGED locked
    /\ UNCHANGED <<files, used, refs>>

\* What has expired goes first; then the bundle has its place, or none.
Create(s) ==
    /\ AtStep(s, "locked")
    /\ IF ~Listed
       THEN Rest(s) /\ locked' = Nobody /\ UNCHANGED <<files, used>>
       ELSE IF ~Fits(Pruned, saver[s].size)
       THEN Rest(s) /\ locked' = Nobody /\ files' = Pruned /\ UNCHANGED used
       ELSE /\ used < MaxSaves /\ used' = used + 1
            /\ files' = Pruned \cup {[key |-> used + 1, size |-> saver[s].size,
                                      left |-> Ttl, whole |-> FALSE]}
            /\ saver' = [saver EXCEPT ![s] = [@ EXCEPT !.step = "open", !.key = used + 1]]
            /\ UNCHANGED locked
    /\ UNCHANGED refs

Write(s) ==
    LET me == saver[s] IN
    /\ AtStep(s, "open")
    /\ files' = {IF f.key = me.key THEN [f EXCEPT !.left = Ttl, !.whole = TRUE] ELSE f : f \in files}
    /\ refs' = refs \cup {[key |-> me.key, size |-> me.size, left |-> me.left]}
    /\ locked' = Nobody
    /\ Rest(s)
    /\ UNCHANGED used

\* The lock goes with the process; what it has written stays.
DieAt(s) ==
    /\ ~AtStep(s, "idle")
    /\ Rest(s)
    /\ locked' = IF locked = s THEN Nobody ELSE locked
    /\ UNCHANGED <<files, used, refs>>

\* An administrator asks for it; there is no schedule.
Cleanup ==
    /\ locked = Nobody /\ Listed
    /\ files' = Pruned
    /\ UNCHANGED <<used, refs, saver, locked>>

\* A reference whose preview is pruned is forgotten.
Forget ==
    /\ \E r \in refs : refs' = refs \ {r}
    /\ UNCHANGED <<files, used, saver, locked>>

Elapsed(set) == {[x EXCEPT !.left = IF @ = 0 THEN 0 ELSE @ - 1] : x \in set}
EvidenceTick ==
    /\ files' = Elapsed(files) /\ refs' = Elapsed(refs)
    /\ saver' = [s \in Savers |-> IF saver[s].left = 0 THEN saver[s] ELSE [saver[s] EXCEPT !.left = @ - 1]]
    /\ UNCHANGED <<used, locked>>

EvidenceNext ==
    \/ \E s \in Savers : Date(s) \/ Lock(s) \/ Create(s) \/ Write(s) \/ DieAt(s)
    \/ Cleanup \/ Forget \/ EvidenceTick

EvidenceTypeOK ==
    /\ files \subseteq Files /\ refs \subseteq Refs
    /\ used \in 0..MaxSaves
    /\ saver \in [Savers -> [step: SaverSteps, left: 0..Ttl, size: Sizes, key: 0..MaxSaves]]
    /\ locked \in Savers \cup {Nobody}

\* A reader checks the reference's expiry, then opens its file without the
\* lock: it must be whole, and of the size that the reference names.
Loads(r) ==
    /\ r.left > 0
    /\ \E f \in files : f.key = r.key /\ f.whole /\ f.size = r.size

\* Evidence that has not expired can be replayed, whoever cleans up or dies
\* meanwhile, and the directory never holds so many files that its own
\* inventory, and with it every later cleanup, is refused for good.
EvidenceHolds ==
    /\ \A r \in refs : r.left > 0 => Loads(r)
    /\ Listed

EvidenceSpec == EvidenceInit /\ [][EvidenceNext]_evidenceVariables
=============================================================================
