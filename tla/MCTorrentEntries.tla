-------------------------- MODULE MCTorrentEntries --------------------------
(***************************************************************************)
(* One or two command line processes, and two torrents to add.              *)
(***************************************************************************)
EXTENDS TorrentEntries

CONSTANTS c1, c2, t1, t2
=============================================================================
