--------------------------- MODULE TorrentRegistry ---------------------------
(***************************************************************************)
(* What the list of torrents promises: a torrent that is added gets an id    *)
(* above every id ever given, and only a removal takes it off the list.      *)
(***************************************************************************)
EXTENDS Integers

CONSTANTS Ids, Torrents

VARIABLES
    listed,   \* id -> torrent, for the ids on the list
    given     \* every id ever given

vars == << listed, given >>

Init == listed = [i \in {} |-> i] /\ given = {}

Add(i, t) ==
    /\ \A j \in given : j < i
    /\ listed' = [j \in DOMAIN listed \cup {i} |-> IF j = i THEN t ELSE listed[j]]
    /\ given' = given \cup {i}

Remove(i) ==
    /\ i \in DOMAIN listed
    /\ listed' = [j \in DOMAIN listed \ {i} |-> listed[j]]
    /\ UNCHANGED given

Next == \E i \in Ids : Remove(i) \/ \E t \in Torrents : Add(i, t)

Spec == Init /\ [][Next]_vars
=============================================================================
