---------------------------- MODULE MCHoldout ----------------------------
(***************************************************************************)
(* A small instance of Holdout for TLC.  A capture shows the list page and *)
(* one article: two have nothing in common, or the article's address, or   *)
(* all of it, for the same may be fetched again.                           *)
(***************************************************************************)
EXTENDS Holdout

Doc(u, t) == [url |-> u, text |-> t]
Fetch(status, version, url, text) ==
    [status |-> status,
     content |-> [lists |-> {Doc("list", version)}, details |-> {Doc(url, text)}]]
Fetched == {Fetch("ready", "l1", "a", "x"), Fetch("ready", "l2", "b", "y"), Fetch("partial", "l3", "a", "z")}
=============================================================================
