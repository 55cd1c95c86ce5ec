----------------------------- MODULE MCDownload -----------------------------
(***************************************************************************)
(* Download with one to three blocks in one or two pieces, and what two peers *)
(* can supply of them.                                                      *)
(***************************************************************************)
EXTENDS Download

Pieces1 == << 1 >>
Pieces11 == << 1, 1 >>
Pieces112 == << 1, 1, 2 >>
HoldsAll == [p \in Peers |-> Pieces]
HoldsMix == << {1}, {1, 2} >>
HoldsLast == << {2}, {1, 2} >>
=============================================================================
