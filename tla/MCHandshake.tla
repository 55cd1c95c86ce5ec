---------------------------- MODULE MCHandshake ----------------------------
(***************************************************************************)
(* Handshake with fields of a few bytes: the connector thread, or the main    *)
(* loop, has a stranger that does what it should next to one that need not.    *)
(***************************************************************************)
EXTENDS Handshake

Scenes  == { { "any out", "proper out" }, { "any in", "proper in" } }
Torrent == [c \in Outgoing |-> 2]
=============================================================================
