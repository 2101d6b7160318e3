-------------------------- MODULE LearningHistory --------------------------
(***************************************************************************)
(* The check that _learning_history.inspect makes of the recorded sessions,*)
(* rounds and retries before every step of learning and validation.  If    *)
(* legal steps of Learning could fail it, learning would lock itself out   *)
(* for good: nothing ever repairs the records.  Rows, hashes and markers   *)
(* are only written together with what they describe, and are not modelled.*)
(***************************************************************************)
EXTENDS Learning, FiniteSets

Recorded == {c \in Captures : session[c].state # "none"}

\* The attempts of a session are its rounds.
RoundsTracked(c) == {a \in Attempts : a[1] = c /\ attempt[a] # "none"} = {c} \X (1 .. session[c].rounds)

\* Its retries are numbered without a gap, of different rounds that it had come
\* to and that it could go beyond.
RetriesTracked(c) ==
    /\ session[c].retries <= MaxRounds
    /\ Cardinality(session[c].retried) = session[c].retries
    /\ \A r \in session[c].retried : r <= session[c].rounds /\ r < MaxRounds

\* Learning never locks itself out: whatever claims, retries, crashes and lost
\* answers come together, the records pass the check (_learning_history.inspect,
\* require).
HistoryTracked == \A c \in Recorded : RoundsTracked(c) /\ RetriesTracked(c)
=============================================================================
