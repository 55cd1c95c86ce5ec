---------------------------- MODULE Acquisition -----------------------------
(***************************************************************************)
(* What one download promises when its peers send what they should: a piece *)
(* once stored is never lost, not even when the process dies; the process    *)
(* knows only of pieces that are stored, finds all of them when it starts,   *)
(* and offers its peers only those it knows of; and it calls the download    *)
(* complete exactly when it knows of every piece.                           *)
(***************************************************************************)
CONSTANTS Pieces, Peers

VARIABLES
    stored,    \* pieces that are right on disk
    known,     \* pieces the running process has verified
    offered,   \* <<peer, piece>>: the peer was told, on a live connection
    complete,  \* what the running process says of the download
    up         \* the process runs

vars == << stored, known, offered, complete, up >>

Init == stored = {} /\ known = {} /\ offered = {} /\ complete = FALSE /\ up = FALSE

Start ==
    /\ ~up /\ up'
    /\ known' = stored /\ complete' = (stored = Pieces)
    /\ UNCHANGED << stored, offered >>

\* The last missing block of piece i is written; the process knows of the piece once
\* it has received all its blocks, which may be later if it was restarted meanwhile.
Store(i) ==
    /\ up /\ i \in Pieces \ stored
    /\ stored' = stored \cup {i}
    /\ UNCHANGED << known, offered, complete, up >>

Verify(i) ==
    /\ up /\ i \in Pieces \ known
    /\ stored' = stored \cup {i} /\ known' = known \cup {i}
    /\ complete' = (known' = Pieces)
    /\ UNCHANGED << offered, up >>

\* Connections come and go, and peers are told of pieces.
Exchange ==
    /\ up
    /\ offered' \subseteq offered \cup (Peers \X known)
    /\ UNCHANGED << stored, known, complete, up >>

\* The process may die right after the last block of a piece reached the disk.
Stop ==
    /\ up /\ ~up'
    /\ \/ UNCHANGED stored
       \/ \E i \in Pieces \ stored : stored' = stored \cup {i}
    /\ known' = {} /\ offered' = {} /\ ~complete'

Next ==
    \/ Start
    \/ \E i \in Pieces : Store(i) \/ Verify(i)
    \/ Exchange
    \/ Stop

Spec == Init /\ [][Next]_vars
=============================================================================
