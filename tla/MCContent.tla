------------------------------ MODULE MCContent ------------------------------
(* A small instance of what is read, kept and sent on. *)
EXTENDS Content, TLC

\* The clock is put forth or back by an hour, once, around the hour of the anchor.
SomeAnchors == [hour: {1, 2}, switch: {13}, before: {1}, after: {2}]
               \cup [hour: {1, 2}, switch: {13}, before: {2}, after: {1}]

\* A feed has two identities that are one to the database.
FeedCase == [i \in Identities |-> IF i = "h" THEN "h" ELSE "g"]
SomeLinks == {[id |-> "G", kind |-> "fine"], [id |-> "g", kind |-> "fine"], [id |-> "G", kind |-> "untitled"],
              [id |-> "h", kind |-> "fine"], [id |-> "h", kind |-> "broken"],
              [id |-> "h", kind |-> "invalid"]}

\* Two spellings with one slug, and two other names: three companies, so that
\* two can be merged into the third.
NameSlug == [n \in Names |-> IF n \in {"c", "d"} THEN n ELSE "a-b"]
NameFold == [n \in Names |-> n]

\* Each story has every keyword; one user looks for them.
StoryWords == [s \in Stories |-> Keywords]
LooksAtFirst == {"u"} \X Keywords

\* Administrators who merge companies are alike.
MergersAlike == Permutations(Mergers)
=============================================================================
