--------------------------- MODULE MCConnections ---------------------------
(***************************************************************************)
(* Connections with two peers, one of which may be announced with an address  *)
(* that does not parse; everything else is given in the configuration.      *)
(***************************************************************************)
EXTENDS Connections
=============================================================================
